---- MODULE Spec2Model ----
(***************************************************************************)
(* The storage handle (Database), the migration runner (MigrationManager)  *)
(* and the boot sequence (startServer / initializeDatabase) of ab-eam,     *)
(* its entities (User, RegistrationRequest) and its repositories.          *)
(* Every awaited database call of an async method is one step of the call  *)
(* frame that issued it.                                                   *)
(***************************************************************************)
EXTENDS Integers, Sequences, FiniteSets, TLC

\* Versions offered to addMigration are 1..MaxVersion.
MaxVersion == 2
\* The registry holds at most MaxMigrations entries.
MaxMigrations == 2

\* Two call frames: the one of startServer() and the one of a direct caller
\* of the exported singletons (tests, tooling).
Procs == {"boot", "api"}

VARIABLES
    dbHandle,     \* Database.db: "null", "open", or "broken" (open failed)
    schema,       \* tables and indexes the connection sees
    rows,         \* rows of the migrations table, (version, name), in insert order
    txn,          \* the open transaction: its BEGIN-time snapshot
    migrations,   \* MigrationManager.migrations
    initialized,  \* MigrationManager.initialized
    boot,         \* position of startServer()
    fr,           \* per caller: the frame of the async call in progress
    last,         \* the call that completed most recently
    opened,       \* driver connections that are open, held by Database.db or not
    call,         \* the Database call that settled most recently
    entity,       \* the User or RegistrationRequest a caller holds
    issued,       \* the ids crypto.randomUUID() has returned
    clock,        \* what new Date() returns
    ecall,        \* the entity method that returned or threw most recently
    users,        \* the rows of the users table, in rowid order
    rcall,        \* the repository call that settled most recently
    dbPath        \* DatabaseConfig.dbPath: "file" (a path) or ":memory:"

handleVars == <<opened, call>>
entityVars == <<entity, issued, clock, ecall>>
repositoryVars == <<users, rcall>>

\* The state the migration runner and the boot sequence leave alone.
apart == <<handleVars, entityVars, repositoryVars, dbPath>>

vars == <<dbHandle, schema, rows, txn, migrations, initialized, boot, fr, last, apart>>

-----------------------------------------------------------------------------
\* SQL scripts: a script is a sequence of statements.

Create(o) == [op |-> "create", obj |-> o]
Drop(o) == [op |-> "drop", obj |-> o]

MigrationsTable == "migrations"

InitialSchemaTables ==
    << "users", "programs", "contact_users", "enrollment_requests",
       "enrollment_request_contact_users", "clients", "client_contact_users" >>

InitialSchemaIndexes ==
    << "idx_users_email", "idx_users_role", "idx_users_status",
       "idx_programs_creator_id", "idx_programs_status",
       "idx_programs_start_date", "idx_programs_end_date",
       "idx_enrollment_requests_program_id",
       "idx_enrollment_requests_requested_by",
       "idx_enrollment_requests_status",
       "idx_clients_program_id", "idx_clients_enrollment_request_id",
       "idx_clients_is_active", "idx_contact_users_email" >>

InitialSchemaDropOrder ==
    << "client_contact_users", "clients", "enrollment_request_contact_users",
       "enrollment_requests", "contact_users", "programs", "users" >>

CreateAll(names) == [i \in 1..Len(names) |-> Create(names[i])]
DropAll(names) == [i \in 1..Len(names) |-> Drop(names[i])]

initialSchemaMigration ==
    [ version |-> 1,
      name    |-> "initial_schema",
      up      |-> CreateAll(InitialSchemaTables) \o CreateAll(InitialSchemaIndexes),
      down    |-> DropAll(InitialSchemaIndexes) \o DropAll(InitialSchemaDropOrder) ]

\* A migration as a caller may register it: a forward script of two
\* statements and an optional reverse script (<<>>: down is absent).
Migration(v, withDown) ==
    [ version |-> v,
      name    |-> "m" \o ToString(v),
      up      |-> << Create("t" \o ToString(v)), Create("i" \o ToString(v)) >>,
      down    |-> IF withDown
                  THEN << Drop("i" \o ToString(v)), Drop("t" \o ToString(v)) >>
                  ELSE << >> ]

Catalog ==
    {initialSchemaMigration}
        \cup { Migration(v, d) : v \in 1..MaxVersion, d \in BOOLEAN }

NoMigration == [version |-> 0, name |-> "", up |-> << >>, down |-> << >>]

-----------------------------------------------------------------------------
\* Database (the storage handle)

NoTxn == [active |-> FALSE, schema |-> {}, rows |-> << >>]

BeginStmt == [k |-> "begin"]
CommitStmt == [k |-> "commit"]
RollbackStmt == [k |-> "rollback"]
ScriptStmt(sql) == [k |-> "script", sql |-> sql]
CreateMigrationsStmt == [k |-> "create_migrations"]
InsertStmt(m) == [k |-> "insert", version |-> m.version, name |-> m.name]
DeleteStmt(m) == [k |-> "delete", version |-> m.version]

\* The outcome of a call that leaves the database as it is.
Rejected(e) == [err |-> e, schema |-> schema, rows |-> rows, txn |-> txn]
Resolved(s, r, t) == [err |-> "none", schema |-> s, rows |-> r, txn |-> t]

\* CREATE ... IF NOT EXISTS / DROP ... IF EXISTS
ExecStatement(s, sch) ==
    IF s.op = "create" THEN sch \cup {s.obj} ELSE sch \ {s.obj}

\* What the handle answers before any SQL is looked at.
HandleError ==
    IF dbHandle = "null" THEN "not_connected"
    ELSE IF dbHandle = "broken" THEN "misuse"
    ELSE "none"

\* Database.run(sql, params). `fail` is the driver reporting an error for the
\* statement; a failed statement changes nothing and leaves a transaction
\* open. sqlite3's run() prepares and executes the first statement of sql.
Run(stmt, fail) ==
    IF HandleError # "none" THEN Rejected(HandleError)
    ELSE IF fail THEN Rejected("sql_error")
    ELSE CASE stmt.k = "begin" ->
                IF txn.active THEN Rejected("nested_txn")
                ELSE Resolved(schema, rows,
                              [active |-> TRUE, schema |-> schema, rows |-> rows])
           [] stmt.k = "commit" ->
                IF ~txn.active THEN Rejected("no_txn")
                ELSE Resolved(schema, rows, NoTxn)
           [] stmt.k = "rollback" ->
                IF ~txn.active THEN Rejected("no_txn")
                ELSE Resolved(txn.schema, txn.rows, NoTxn)
           [] stmt.k = "script" ->
                IF stmt.sql = << >> THEN Resolved(schema, rows, txn)
                ELSE Resolved(ExecStatement(Head(stmt.sql), schema), rows, txn)
           [] stmt.k = "create_migrations" ->
                Resolved(schema \cup {MigrationsTable}, rows, txn)
           [] stmt.k = "insert" ->
                IF MigrationsTable \notin schema THEN Rejected("no_such_table")
                ELSE Resolved(schema,
                              Append(rows, [version |-> stmt.version, name |-> stmt.name]),
                              txn)
           [] stmt.k = "delete" ->
                IF MigrationsTable \notin schema THEN Rejected("no_such_table")
                ELSE Resolved(schema,
                              SelectSeq(rows, LAMBDA r : r.version # stmt.version),
                              txn)

beginTransaction(fail) == Run(BeginStmt, fail)
commitTransaction(fail) == Run(CommitStmt, fail)
rollbackTransaction == Run(RollbackStmt, FALSE)

SetMax(S) == CHOOSE x \in S : \A y \in S : y <= x

Versions(rs) == { rs[i].version : i \in 1..Len(rs) }

\* Database.get('SELECT MAX(version) as current_version FROM migrations'):
\* value 0 stands for the NULL of an empty table.
SelectMaxVersion ==
    IF HandleError # "none" THEN [err |-> HandleError, value |-> 0]
    ELSE IF MigrationsTable \notin schema THEN [err |-> "no_such_table", value |-> 0]
    ELSE [err |-> "none",
          value |-> IF rows = << >> THEN 0 ELSE SetMax(Versions(rows))]

SetDb(o) == schema' = o.schema /\ rows' = o.rows /\ txn' = o.txn

\* Database.all('SELECT * FROM migrations')
SelectAll ==
    IF HandleError # "none" THEN [err |-> HandleError, value |-> << >>]
    ELSE IF MigrationsTable \notin schema THEN [err |-> "no_such_table", value |-> << >>]
    ELSE [err |-> "none", value |-> rows]

\* Database.close(): without a handle the promise resolves at once; with one
\* the driver is asked to close it, and this.db is cleared only in the
\* callback of a close that succeeded. Closing a connection gives up its
\* open transaction. A handle whose open failed has nothing to close.
close(fail) ==
    IF dbHandle = "null" THEN [err |-> "none", handle |-> "null", closed |-> FALSE]
    ELSE IF dbHandle = "broken" THEN [err |-> "misuse", handle |-> "broken", closed |-> FALSE]
    ELSE IF fail THEN [err |-> "close_error", handle |-> "open", closed |-> FALSE]
    ELSE [err |-> "none", handle |-> "null", closed |-> TRUE]

\* A settled call of the Database class: the method, the error it rejected
\* with ("none" when it resolved), the handle it was made on, whether the
\* call got as far as the driver, and the database it found.
HandleCall(o, e) ==
    [op |-> o, err |-> e, on |-> dbHandle, driver |-> dbHandle # "null",
     opened |-> opened, schema |-> schema, rows |-> rows, txn |-> txn]

NoHandleCall ==
    [op |-> "none", err |-> "none", on |-> "null", driver |-> FALSE,
     opened |-> 0, schema |-> {}, rows |-> << >>, txn |-> NoTxn]

\* No repository method called yet.
NoRepositoryCall ==
    [op |-> "none", raised |-> "none", returned |-> << >>, args |-> << >>,
     before |-> << >>]

\* No object yet, and no method called yet.
NoEntity == [kind |-> "none"]
NoEntityCall ==
    [op |-> "none", thrown |-> "none", before |-> NoEntity, args |-> << >>,
     issued |-> {}]

-----------------------------------------------------------------------------
\* MigrationManager: the registry

\* Array.prototype.sort((a, b) => a.version - b.version): a stable sort.
RECURSIVE SortByVersion(_)
InsertByVersion(sorted, m) ==
    LET before == SelectSeq(sorted, LAMBDA x : x.version <= m.version)
        after  == SelectSeq(sorted, LAMBDA x : x.version > m.version)
    IN  before \o << m >> \o after
SortByVersion(s) ==
    IF s = << >> THEN << >>
    ELSE InsertByVersion(SortByVersion(SubSeq(s, 1, Len(s) - 1)), s[Len(s)])

\* getCurrentVersion(): result?.current_version || 0
getCurrentVersion == SelectMaxVersion

\* Variants of the filter: version >= currentVersion; no filter at all.
PendingFilterInclusive(migs, currentVersion) ==
    SelectSeq(migs, LAMBDA m : m.version >= currentVersion)

PendingFilterAll(migs, currentVersion) == migs

PendingFilter(migs, currentVersion) ==
    SelectSeq(migs, LAMBDA m : m.version > currentVersion)

\* getPendingMigrations()
getPendingMigrations ==
    LET c == getCurrentVersion
    IN  [err |-> c.err,
         value |-> IF c.err = "none" THEN PendingFilter(migrations, c.value) ELSE << >>]

\* Variant: .shift() in place of .pop().
LastMigrationShift(migs, currentVersion) ==
    LET upTo == SelectSeq(migs, LAMBDA m : m.version <= currentVersion)
    IN  IF upTo = << >> THEN NoMigration ELSE upTo[1]

\* rollback(): this.migrations.filter(m => m.version <= currentVersion).pop()
LastMigration(migs, currentVersion) ==
    LET upTo == SelectSeq(migs, LAMBDA m : m.version <= currentVersion)
    IN  IF upTo = << >> THEN NoMigration ELSE upTo[Len(upTo)]

\* Variant: pendingCount taken as total minus current version.
StatusResultByDifference(currentVersion, pending, migs) ==
    [ currentVersion  |-> currentVersion,
      pendingCount    |-> Len(migs) - currentVersion,
      totalMigrations |-> Len(migs) ]

StatusResult(currentVersion, pending, migs) ==
    [ currentVersion  |-> currentVersion,
      pendingCount    |-> Len(pending),
      totalMigrations |-> Len(migs) ]

NoStatus == [currentVersion |-> 0, pendingCount |-> 0, totalMigrations |-> 0]

-----------------------------------------------------------------------------
\* Call frames

NoSnap == [handle |-> "null", schema |-> {}, rows |-> << >>]
Snap == [handle |-> dbHandle, schema |-> schema, rows |-> rows]

\* What a later call remembers of the call before it; only a rollback() is
\* remembered in detail.
NoCall == [op |-> "other", ok |-> TRUE, acted |-> FALSE, rows |-> << >>]
CallRecord(f) ==
    IF f.op = "rollback"
    THEN [op |-> "rollback", ok |-> f.err = "none", acted |-> f.hist # << >>,
          rows |-> f.pre.rows]
    ELSE NoCall

IdleFrame ==
    [ pc       |-> "idle",
      op       |-> "none",
      cv       |-> 0,          \* currentVersion
      pend     |-> << >>,      \* pendingMigrations
      idx      |-> 0,          \* position of the for..of loop in pend
      mig      |-> NoMigration,\* lastMigration of rollback()
      caught   |-> "none",     \* the error the catch block received
      err      |-> "none",     \* the error the call rejected with
      status   |-> NoStatus,   \* the value getStatus() resolved with
      pre      |-> NoSnap,     \* the database when the call was made
      prev     |-> NoCall,     \* the call completed just before this one
      hist     |-> << >>,      \* statements the call sent inside applyMigration / rollback
      mark     |-> NoSnap,     \* the database at the call's latest COMMIT (at its start, before one)
      injected |-> FALSE ]     \* the driver failed one of its statements

Ev(e, m, err) == [e |-> e, version |-> m.version, name |-> m.name, ok |-> err = "none"]

\* "returned": the frame of startServer's migrate() after startServer went on.
AllIdle == \A q \in Procs : fr[q].pc \in {"idle", "returned"}

\* A new call may start: nothing else is in flight and the process is alive.
Quiet == AllIdle /\ boot \in {"off", "listening"}

NewFrame(o, firstPc) ==
    [IdleFrame EXCEPT !.pc = firstPc, !.op = o, !.pre = Snap, !.mark = Snap,
                      !.prev = last]

Init ==
    /\ dbHandle = "null"
    /\ schema = {}
    /\ rows = << >>
    /\ txn = NoTxn
    /\ migrations = << >>
    /\ initialized = FALSE
    /\ boot = "off"
    /\ fr = [p \in Procs |-> IdleFrame]
    /\ last = NoCall
    /\ opened = 0
    /\ call = NoHandleCall
    /\ entity = NoEntity
    /\ issued = {}
    /\ clock = 0
    /\ ecall = NoEntityCall
    /\ users = << >>
    /\ rcall = NoRepositoryCall
    /\ dbPath = "file"

-----------------------------------------------------------------------------
\* Database.connect / MigrationManager.addMigration / initializeMigrationsTable

\* connect(): this.db is assigned before the open completes; the promise
\* rejects when the open fails, and this.db keeps the handle that failed.
\* new sqlite3.Database(dbPath) on a path opens the database of that file;
\* on ":memory:" it opens a new, empty database of its own.
connect(ok) ==
    /\ dbHandle' = IF ok THEN "open" ELSE "broken"
    /\ IF dbPath = ":memory:"
       THEN schema' = {} /\ rows' = << >> /\ txn' = NoTxn
       ELSE UNCHANGED <<schema, rows, txn>>

Connect ==
    \E ok \in BOOLEAN :
        /\ Quiet
        /\ connect(ok)
        /\ last' = NoCall
        /\ UNCHANGED <<migrations, initialized, boot, fr, apart>>

addMigration(m) ==
    migrations' = SortByVersion(Append(migrations, m))

AddMigration ==
    \E m \in Catalog :
        /\ Quiet
        /\ Len(migrations) < MaxMigrations
        /\ addMigration(m)
        /\ last' = NoCall
        /\ UNCHANGED <<dbHandle, schema, rows, txn, initialized, boot, fr, apart>>

Finish(p, e) == [fr[p] EXCEPT !.pc = "done", !.err = e]

\* initializeMigrationsTable(): if (this.initialized) return;
CallInitializeMigrationsTable(p) ==
    /\ Quiet /\ p = "api"
    /\ fr' = [fr EXCEPT ![p] =
                [NewFrame("initializeMigrationsTable",
                          IF initialized THEN "done" ELSE "init_run") EXCEPT !.err = "none"]]
    /\ UNCHANGED <<dbHandle, schema, rows, txn, migrations, initialized, boot, last, apart>>

\* await database.run(createTableSQL); this.initialized = true;
InitRun(p) ==
    /\ fr[p].pc = "init_run"
    /\ LET o == Run(CreateMigrationsStmt, FALSE)
       IN  /\ SetDb(o)
           /\ initialized' = (initialized \/ o.err = "none")
           /\ fr' = [fr EXCEPT ![p] = Finish(p, o.err)]
    /\ UNCHANGED <<dbHandle, migrations, boot, last, apart>>

\* The call's promise settles and the caller goes on.
Return(p) ==
    /\ p = "api"
    /\ fr[p].pc = "done"
    /\ fr' = [fr EXCEPT ![p] = IdleFrame]
    /\ last' = CallRecord(fr[p])
    /\ UNCHANGED <<dbHandle, schema, rows, txn, migrations, initialized, boot, apart>>

-----------------------------------------------------------------------------
\* MigrationManager.migrate / applyMigration

CallMigrate(p) ==
    /\ Quiet /\ p = "api"
    /\ fr' = [fr EXCEPT ![p] = NewFrame("migrate", "mig_pending")]
    /\ UNCHANGED <<dbHandle, schema, rows, txn, migrations, initialized, boot, last, apart>>

\* const pendingMigrations = await this.getPendingMigrations();
\* if (pendingMigrations.length === 0) return;
MigratePending(p) ==
    /\ fr[p].pc = "mig_pending"
    /\ LET g == getPendingMigrations
       IN  fr' = [fr EXCEPT ![p] =
                    IF g.err # "none" THEN Finish(p, g.err)
                    ELSE IF Len(g.value) = 0 THEN Finish(p, "none")
                    ELSE [@ EXCEPT !.pc = "mig_begin", !.pend = g.value, !.idx = 1]]
    /\ UNCHANGED <<dbHandle, schema, rows, txn, migrations, initialized, boot, last, apart>>

Current(p) == fr[p].pend[fr[p].idx]

\* One awaited statement of a try block: on success go to `next`, on error
\* to the catch block.
TryStep(p, event, o, fail, next, catch) ==
    [fr[p] EXCEPT !.pc = IF o.err = "none" THEN next ELSE catch,
                  !.caught = o.err,
                  !.hist = Append(@, event),
                  !.injected = @ \/ fail]

\* await database.beginTransaction();
ApplyBegin(p) ==
    \E fail \in BOOLEAN :
        /\ fr[p].pc = "mig_begin"
        /\ LET o == beginTransaction(fail)
           IN  /\ SetDb(o)
               /\ fr' = [fr EXCEPT ![p] =
                            TryStep(p, Ev("begin", Current(p), o.err), o, fail,
                                    "mig_up", "mig_catch")]
        /\ UNCHANGED <<dbHandle, migrations, initialized, boot, last, apart>>

\* await database.run(migration.up);
ApplyUp(p) ==
    \E fail \in BOOLEAN :
        /\ fr[p].pc = "mig_up"
        /\ LET o == Run(ScriptStmt(Current(p).up), fail)
           IN  /\ SetDb(o)
               /\ fr' = [fr EXCEPT ![p] =
                            TryStep(p, Ev("up", Current(p), o.err), o, fail,
                                    "mig_insert", "mig_catch")]
        /\ UNCHANGED <<dbHandle, migrations, initialized, boot, last, apart>>

\* await database.run('INSERT INTO migrations (version, name) VALUES (?, ?)', ...);
ApplyInsert(p) ==
    \E fail \in BOOLEAN :
        /\ fr[p].pc = "mig_insert"
        /\ LET o == Run(InsertStmt(Current(p)), fail)
           IN  /\ SetDb(o)
               /\ fr' = [fr EXCEPT ![p] =
                            TryStep(p, Ev("insert", Current(p), o.err), o, fail,
                                    "mig_commit", "mig_catch")]
        /\ UNCHANGED <<dbHandle, migrations, initialized, boot, last, apart>>

\* Variant: the loop ends after its first iteration.
AfterCommitReturn(p) == [pc |-> "done", idx |-> fr[p].idx]

\* await database.commitTransaction(); then the next migration of the loop,
\* or migrate() returns.
AfterCommit(p) ==
    IF fr[p].idx < Len(fr[p].pend)
    THEN [pc |-> "mig_begin", idx |-> fr[p].idx + 1]
    ELSE [pc |-> "done", idx |-> fr[p].idx]

ApplyCommit(p) ==
    \E fail \in BOOLEAN :
        /\ fr[p].pc = "mig_commit"
        /\ LET o == commitTransaction(fail)
               n == AfterCommit(p)
           IN  /\ SetDb(o)
               /\ fr' = [fr EXCEPT ![p] =
                            [TryStep(p, Ev("commit", Current(p), o.err), o, fail,
                                     n.pc, "mig_catch")
                                EXCEPT !.idx = IF o.err = "none" THEN n.idx ELSE @,
                                       !.mark = IF o.err = "none"
                                                THEN [@ EXCEPT !.schema = o.schema,
                                                               !.rows = o.rows]
                                                ELSE @]]
        /\ UNCHANGED <<dbHandle, migrations, initialized, boot, last, apart>>

\* Variant: a catch block that rethrows without rollbackTransaction().
CatchRethrow(p, m) ==
    [db |-> Resolved(schema, rows, txn),
     frame |-> [fr[p] EXCEPT !.pc = "done", !.err = fr[p].caught]]

\* catch (error) { await database.rollbackTransaction(); throw error; }
\* A rollbackTransaction() that rejects replaces the error that is thrown.
CatchRollback(p, m) ==
    LET o == rollbackTransaction
    IN  [db |-> o,
         frame |-> [fr[p] EXCEPT !.pc = "done",
                                 !.err = IF o.err = "none" THEN fr[p].caught ELSE o.err,
                                 !.hist = Append(@, Ev("rollback", m, o.err))]]

ApplyCatch(p) ==
    /\ fr[p].pc = "mig_catch"
    /\ LET c == CatchRollback(p, Current(p))
       IN  /\ SetDb(c.db)
           /\ fr' = [fr EXCEPT ![p] = c.frame]
    /\ UNCHANGED <<dbHandle, migrations, initialized, boot, last, apart>>

-----------------------------------------------------------------------------
\* MigrationManager.rollback

CallRollback(p) ==
    /\ Quiet /\ p = "api"
    /\ fr' = [fr EXCEPT ![p] = NewFrame("rollback", "rb_last")]
    /\ UNCHANGED <<dbHandle, schema, rows, txn, migrations, initialized, boot, last, apart>>

\* const currentVersion = await this.getCurrentVersion();
\* const lastMigration = ...; if (!lastMigration || !lastMigration.down) return;
RollbackLast(p) ==
    /\ fr[p].pc = "rb_last"
    /\ LET c == getCurrentVersion
           m == LastMigration(migrations, c.value)
       IN  fr' = [fr EXCEPT ![p] =
                    IF c.err # "none" THEN Finish(p, c.err)
                    ELSE IF m = NoMigration \/ m.down = << >>
                         THEN [Finish(p, "none") EXCEPT !.cv = c.value]
                    ELSE [@ EXCEPT !.pc = "rb_begin", !.cv = c.value, !.mig = m]]
    /\ UNCHANGED <<dbHandle, schema, rows, txn, migrations, initialized, boot, last, apart>>

\* await database.beginTransaction();
RollbackBegin(p) ==
    \E fail \in BOOLEAN :
        /\ fr[p].pc = "rb_begin"
        /\ LET o == beginTransaction(fail)
           IN  /\ SetDb(o)
               /\ fr' = [fr EXCEPT ![p] =
                            TryStep(p, Ev("begin", fr[p].mig, o.err), o, fail,
                                    "rb_down", "rb_catch")]
        /\ UNCHANGED <<dbHandle, migrations, initialized, boot, last, apart>>

\* await database.run(lastMigration.down);
RollbackDown(p) ==
    \E fail \in BOOLEAN :
        /\ fr[p].pc = "rb_down"
        /\ LET o == Run(ScriptStmt(fr[p].mig.down), fail)
           IN  /\ SetDb(o)
               /\ fr' = [fr EXCEPT ![p] =
                            TryStep(p, Ev("down", fr[p].mig, o.err), o, fail,
                                    "rb_delete", "rb_catch")]
        /\ UNCHANGED <<dbHandle, migrations, initialized, boot, last, apart>>

\* await database.run('DELETE FROM migrations WHERE version = ?', [lastMigration.version]);
RollbackDelete(p) ==
    \E fail \in BOOLEAN :
        /\ fr[p].pc = "rb_delete"
        /\ LET o == Run(DeleteStmt(fr[p].mig), fail)
           IN  /\ SetDb(o)
               /\ fr' = [fr EXCEPT ![p] =
                            TryStep(p, Ev("delete", fr[p].mig, o.err), o, fail,
                                    "rb_commit", "rb_catch")]
        /\ UNCHANGED <<dbHandle, migrations, initialized, boot, last, apart>>

\* await database.commitTransaction();
RollbackCommit(p) ==
    \E fail \in BOOLEAN :
        /\ fr[p].pc = "rb_commit"
        /\ LET o == commitTransaction(fail)
           IN  /\ SetDb(o)
               /\ fr' = [fr EXCEPT ![p] =
                            TryStep(p, Ev("commit", fr[p].mig, o.err), o, fail,
                                    "done", "rb_catch")]
        /\ UNCHANGED <<dbHandle, migrations, initialized, boot, last, apart>>

\* catch (error) { await database.rollbackTransaction(); throw error; }
RollbackCatch(p) ==
    /\ fr[p].pc = "rb_catch"
    /\ LET c == CatchRollback(p, fr[p].mig)
       IN  /\ SetDb(c.db)
           /\ fr' = [fr EXCEPT ![p] = c.frame]
    /\ UNCHANGED <<dbHandle, migrations, initialized, boot, last, apart>>

-----------------------------------------------------------------------------
\* MigrationManager.getCurrentVersion / getPendingMigrations / getStatus

CallGetCurrentVersion(p) ==
    /\ Quiet /\ p = "api"
    /\ fr' = [fr EXCEPT ![p] = NewFrame("getCurrentVersion", "cv_get")]
    /\ UNCHANGED <<dbHandle, schema, rows, txn, migrations, initialized, boot, last, apart>>

GetCurrentVersion(p) ==
    /\ fr[p].pc = "cv_get"
    /\ LET c == getCurrentVersion
       IN  fr' = [fr EXCEPT ![p] = [Finish(p, c.err) EXCEPT !.cv = c.value]]
    /\ UNCHANGED <<dbHandle, schema, rows, txn, migrations, initialized, boot, last, apart>>

CallGetPendingMigrations(p) ==
    /\ Quiet /\ p = "api"
    /\ fr' = [fr EXCEPT ![p] = NewFrame("getPendingMigrations", "pm_get")]
    /\ UNCHANGED <<dbHandle, schema, rows, txn, migrations, initialized, boot, last, apart>>

GetPendingMigrations(p) ==
    /\ fr[p].pc = "pm_get"
    /\ LET g == getPendingMigrations
       IN  fr' = [fr EXCEPT ![p] = [Finish(p, g.err) EXCEPT !.pend = g.value]]
    /\ UNCHANGED <<dbHandle, schema, rows, txn, migrations, initialized, boot, last, apart>>

CallGetStatus(p) ==
    /\ Quiet /\ p = "api"
    /\ fr' = [fr EXCEPT ![p] = NewFrame("getStatus", "st_version")]
    /\ UNCHANGED <<dbHandle, schema, rows, txn, migrations, initialized, boot, last, apart>>

\* const currentVersion = await this.getCurrentVersion();
StatusVersion(p) ==
    /\ fr[p].pc = "st_version"
    /\ LET c == getCurrentVersion
       IN  fr' = [fr EXCEPT ![p] =
                    IF c.err # "none" THEN Finish(p, c.err)
                    ELSE [@ EXCEPT !.pc = "st_pending", !.cv = c.value]]
    /\ UNCHANGED <<dbHandle, schema, rows, txn, migrations, initialized, boot, last, apart>>

\* const pendingMigrations = await this.getPendingMigrations(); return {...};
StatusPending(p) ==
    /\ fr[p].pc = "st_pending"
    /\ LET g == getPendingMigrations
       IN  fr' = [fr EXCEPT ![p] =
                    IF g.err # "none" THEN Finish(p, g.err)
                    ELSE [Finish(p, "none") EXCEPT
                            !.pend = g.value,
                            !.status = StatusResult(fr[p].cv, g.value, migrations)]]
    /\ UNCHANGED <<dbHandle, schema, rows, txn, migrations, initialized, boot, last, apart>>

-----------------------------------------------------------------------------
\* startServer / initializeDatabase / registerMigrations

\* startServer() -> initializeDatabase() -> await database.connect()
StartServer ==
    /\ Quiet /\ boot = "off"
    /\ Len(migrations) < MaxMigrations
    /\ boot' = "connecting"
    /\ UNCHANGED <<dbHandle, schema, rows, txn, migrations, initialized, fr, last, apart>>

\* connect() settled: on success registerMigrations() and the call of
\* migrate(); on failure the error reaches startServer's catch: process.exit(1).
BootConnected ==
    \E ok \in BOOLEAN :
        /\ boot = "connecting"
        /\ connect(ok)
        /\ IF ok
           THEN /\ addMigration(initialSchemaMigration)
                /\ boot' = "migrating"
                /\ fr' = [fr EXCEPT !["boot"] =
                            [NewFrame("migrate", "mig_pending") EXCEPT
                                !.pre = [Snap EXCEPT !.handle = "open"],
                                !.mark = [Snap EXCEPT !.handle = "open"]]]
           ELSE /\ boot' = "exited"
                /\ UNCHANGED <<migrations, fr, apart>>
        /\ UNCHANGED <<initialized, last, apart>>

\* Variant: the server is started whatever migrate() did.
BootAlwaysStart(err) == "listening"

\* migrate() settled: expressApp.start() if it resolved, process.exit(1) if
\* it rejected.
BootAfterMigrate(err) == IF err = "none" THEN "listening" ELSE "exited"

BootMigrated ==
    /\ boot = "migrating"
    /\ fr["boot"].pc = "done"
    /\ boot' = BootAfterMigrate(fr["boot"].err)
    /\ fr' = [fr EXCEPT !["boot"] = [@ EXCEPT !.pc = "returned"]]
    /\ last' = NoCall
    /\ UNCHANGED <<dbHandle, schema, rows, txn, migrations, initialized, apart>>

Next ==
    \/ Connect
    \/ AddMigration
    \/ StartServer
    \/ BootConnected
    \/ BootMigrated
    \/ \E p \in Procs :
        \/ CallInitializeMigrationsTable(p)
        \/ InitRun(p)
        \/ Return(p)
        \/ CallMigrate(p)
        \/ MigratePending(p)
        \/ ApplyBegin(p)
        \/ ApplyUp(p)
        \/ ApplyInsert(p)
        \/ ApplyCommit(p)
        \/ ApplyCatch(p)
        \/ CallRollback(p)
        \/ RollbackLast(p)
        \/ RollbackBegin(p)
        \/ RollbackDown(p)
        \/ RollbackDelete(p)
        \/ RollbackCommit(p)
        \/ RollbackCatch(p)
        \/ CallGetCurrentVersion(p)
        \/ GetCurrentVersion(p)
        \/ CallGetPendingMigrations(p)
        \/ GetPendingMigrations(p)
        \/ CallGetStatus(p)
        \/ StatusVersion(p)
        \/ StatusPending(p)

Spec == Init /\ [][Next]_vars

-----------------------------------------------------------------------------
\* Vocabulary of the properties

\* Caller p's call of operation o has settled and p has not gone on yet.
Done(p, o) == fr[p].pc = "done" /\ fr[p].op = o

MaxVersionOf(rs) == IF Versions(rs) = {} THEN 0 ELSE SetMax(Versions(rs))

RowsOf(ms) == [i \in 1..Len(ms) |-> [version |-> ms[i].version, name |-> ms[i].name]]

Count(h, e) == Cardinality({ i \in 1..Len(h) : h[i].e = e })

\* The statements of a migrate() that applies ms without an error: per
\* migration BEGIN, the forward script, the bookkeeping insert, COMMIT.
RECURSIVE ExpectedTrace(_)
ExpectedTrace(ms) ==
    IF ms = << >> THEN << >>
    ELSE << Ev("begin", ms[1], "none"), Ev("up", ms[1], "none"),
            Ev("insert", ms[1], "none"), Ev("commit", ms[1], "none") >>
         \o ExpectedTrace(Tail(ms))

\* The forward script or the bookkeeping insert of the migration at position
\* idx failed, and the catch block ran.
ForwardFailed(p) ==
    /\ Done(p, "migrate")
    /\ \E i \in 1..Len(fr[p].hist) :
            fr[p].hist[i].e \in {"up", "insert"} /\ ~fr[p].hist[i].ok

-----------------------------------------------------------------------------
\* C1: when the forward script or the bookkeeping insert of a pending
\* migration fails, migrate() ends with an error, the database is as the
\* last committed migration of this call left it (as at the start of the
\* call when the failing one was first), no row of the failed migration was
\* added, currentVersion() is the version of the migration committed before
\* it (the starting version when it was first), and no later pending
\* migration was begun.
C1_FailedMigrationIsAtomic ==
    \A p \in Procs :
        ForwardFailed(p) =>
            LET f == fr[p]
                k == f.idx
            IN  /\ f.err # "none"
                /\ ~txn.active
                /\ schema = f.mark.schema
                /\ rows = f.mark.rows
                /\ rows = f.pre.rows \o RowsOf(SubSeq(f.pend, 1, k - 1))
                /\ (k = 1 => schema = f.pre.schema)
                /\ getCurrentVersion.err = "none"
                /\ getCurrentVersion.value =
                       IF k = 1 THEN MaxVersionOf(f.pre.rows) ELSE f.pend[k - 1].version
                /\ Count(f.hist, "begin") = k
                /\ Count(f.hist, "up") <= k

\* The insert failed after the forward script had changed the schema, and
\* another migration was still pending behind the failed one.
C1_Witness ==
    \E p \in Procs :
        /\ ForwardFailed(p)
        /\ \E i \in 1..Len(fr[p].hist) :
                fr[p].hist[i].e = "insert" /\ ~fr[p].hist[i].ok
        /\ fr[p].idx < Len(fr[p].pend)
        /\ fr[p].pend[fr[p].idx].up[1].obj \notin schema

\* C2: when migrate() returns normally, the migrations that were pending at
\* its start have each been applied once, in ascending version order, each
\* as BEGIN, forward script, one bookkeeping insert of (version, name),
\* COMMIT; then currentVersion() is the highest registered version and
\* pendingMigrations() is empty.
C2_MigrateAppliesAllPending ==
    \A p \in Procs :
        (Done(p, "migrate") /\ fr[p].err = "none") =>
            LET f == fr[p]
            IN  /\ f.pend = SelectSeq(migrations,
                                LAMBDA m : m.version > MaxVersionOf(f.pre.rows))
                /\ \A i, j \in 1..Len(f.pend) :
                        i < j => f.pend[i].version <= f.pend[j].version
                /\ f.hist = ExpectedTrace(f.pend)
                /\ rows = f.pre.rows \o RowsOf(f.pend)
                /\ ~txn.active
                /\ migrations # << >> =>
                        getCurrentVersion.value = migrations[Len(migrations)].version
                /\ getPendingMigrations = [err |-> "none", value |-> << >>]

\* A migrate() that returned normally after applying two migrations.
C2_Witness ==
    \E p \in Procs :
        /\ Done(p, "migrate")
        /\ fr[p].err = "none"
        /\ Len(fr[p].pend) = 2
        /\ Len(rows) >= 2

\* C3: once every registered migration has been applied, a further
\* migrate() returns normally without sending a statement, leaves schema and
\* bookkeeping table as they were, and pendingMigrations() is empty.
AllAppliedBefore(p) ==
    /\ migrations # << >>
    /\ \A i \in 1..Len(migrations) :
            migrations[i].version \in Versions(fr[p].pre.rows)

C3_MigrateAfterFullApplicationIsNoOp ==
    \A p \in Procs :
        (Done(p, "migrate") /\ AllAppliedBefore(p)) =>
            /\ fr[p].hist = << >>
            /\ schema = fr[p].pre.schema
            /\ rows = fr[p].pre.rows
            /\ fr[p].pre.handle = "open" =>
                    /\ fr[p].err = "none"
                    /\ fr[p].pend = << >>
                    /\ getPendingMigrations = [err |-> "none", value |-> << >>]

\* A second migrate() on a registry of two applied migrations.
C3_Witness ==
    \E p \in Procs :
        /\ Done(p, "migrate")
        /\ AllAppliedBefore(p)
        /\ fr[p].pre.handle = "open"
        /\ Len(migrations) = 2

Range(q) == { q[i] : i \in 1..Len(q) }

\* A registered migration that has no bookkeeping row although a higher
\* version has one.
SkippedMigration(rs) ==
    \E i \in 1..Len(migrations) :
        /\ migrations[i].version \notin Versions(rs)
        /\ migrations[i].version < MaxVersionOf(rs)

\* C4 as stated: pendingMigrations() returns every registered migration
\* whose version has no bookkeeping row, and none whose version has one.
C4_PendingIsRegistryMinusApplied ==
    \A p \in Procs :
        (Done(p, "getPendingMigrations") /\ fr[p].err = "none") =>
            \A i \in 1..Len(migrations) :
                (migrations[i] \in Range(fr[p].pend))
                    <=> (migrations[i].version \notin Versions(rows))

\* C4, amended: pendingMigrations() returns, in registry order, exactly the
\* registered migrations whose version is above every version that has a
\* bookkeeping row; so none whose version has a row is returned, and a
\* registered migration without a row is returned only if its version is
\* above the highest applied one.
C4_PendingIsAboveHighestApplied ==
    \A p \in Procs :
        (Done(p, "getPendingMigrations") /\ fr[p].err = "none") =>
            /\ fr[p].pend = SelectSeq(migrations,
                                LAMBDA m : \A v \in Versions(rows) : m.version > v)
            /\ \A i \in 1..Len(fr[p].pend) :
                    fr[p].pend[i].version \notin Versions(rows)
            /\ \A i \in 1..Len(migrations) :
                    (/\ migrations[i].version \notin Versions(rows)
                     /\ migrations[i].version > MaxVersionOf(rows))
                        => migrations[i] \in Range(fr[p].pend)

\* pendingMigrations() answered while a registered migration was skipped:
\* registered below the highest applied version and never applied.
C4_Witness ==
    \E p \in Procs :
        /\ Done(p, "getPendingMigrations")
        /\ fr[p].err = "none"
        /\ SkippedMigration(rows)
        /\ fr[p].pend = << >>

\* migrate() returned normally right after a rollback() that ran its
\* reverse script and returned normally.
RolledBackThenMigrated(p) ==
    /\ Done(p, "migrate")
    /\ fr[p].err = "none"
    /\ fr[p].prev.op = "rollback"
    /\ fr[p].prev.ok
    /\ fr[p].prev.acted

\* C5 as stated: rollback() followed by migrate(), all scripts succeeding,
\* leaves the set of applied versions that was there before the rollback().
C5_RollbackMigrateRoundTrip ==
    \A p \in Procs :
        RolledBackThenMigrated(p) => Versions(rows) = Versions(fr[p].prev.rows)

\* Every registered migration whose version is above the versions that
\* remain applied once the highest one is removed has that highest version.
NothingElseToApply(before) ==
    LET top  == MaxVersionOf(before)
        rest == Versions(before) \ {top}
        next == IF rest = {} THEN 0 ELSE SetMax(rest)
    IN  \A i \in 1..Len(migrations) :
            migrations[i].version > next => migrations[i].version = top

\* C5, amended: the round trip restores the set of applied versions when,
\* before the rollback(), no registered migration other than those of the
\* highest applied version had a version above the second-highest applied
\* version (nothing was pending, and nothing was skipped just below the top).
C5_RoundTripWhenNothingElseToApply ==
    \A p \in Procs :
        (RolledBackThenMigrated(p) /\ NothingElseToApply(fr[p].prev.rows)) =>
            Versions(rows) = Versions(fr[p].prev.rows)

\* The round trip on two applied versions: version 2 was rolled back and
\* applied again.
C5_Witness ==
    \E p \in Procs :
        /\ RolledBackThenMigrated(p)
        /\ NothingElseToApply(fr[p].prev.rows)
        /\ Versions(fr[p].prev.rows) = {1, 2}
        /\ Len(fr[p].pend) >= 1

\* C6 as stated: on a connected handle, rollback() returns normally, sends
\* no statement and changes nothing whenever no registered migration has the
\* highest applied version (0 when nothing is applied), or none with that
\* version declares a reverse script.
NothingToRollBack(p) ==
    \A i \in 1..Len(migrations) :
        migrations[i].version = MaxVersionOf(fr[p].pre.rows)
            => migrations[i].down = << >>

C6_RollbackNoOp ==
    \A p \in Procs :
        (Done(p, "rollback") /\ fr[p].pre.handle = "open" /\ NothingToRollBack(p)) =>
            /\ fr[p].err = "none"
            /\ fr[p].hist = << >>
            /\ schema = fr[p].pre.schema
            /\ rows = fr[p].pre.rows

\* C7 as stated: currentVersion, pendingMigrations, migrate, rollback and
\* status succeed as the first operation on a connected database that has
\* no tables (the driver failing no statement).
TableOperations ==
    {"getCurrentVersion", "getPendingMigrations", "migrate", "rollback", "getStatus"}

C7_TableCreatedBeforeFirstUse ==
    \A p \in Procs :
        (/\ fr[p].pc = "done"
         /\ fr[p].op \in TableOperations
         /\ fr[p].pre.handle = "open"
         /\ fr[p].pre.schema = {}
         /\ ~fr[p].injected) => fr[p].err = "none"

\* C8: the server starts listening only from a settled migrate() of the boot
\* sequence that raised nothing, on a handle whose connect() succeeded and a
\* registry that holds the initial schema migration; a failed connect() or
\* a migrate() that raised ends in process exit; an exited process stays
\* exited, so it never listens.
C8_ListenOnlyAfterMigrate ==
    [][ /\ (boot' = "listening" /\ boot # "listening") =>
            /\ boot = "migrating"
            /\ Done("boot", "migrate")
            /\ fr["boot"].err = "none"
            /\ fr["boot"].pre.handle = "open"
            /\ dbHandle = "open"
            /\ initialSchemaMigration \in Range(migrations)
            /\ getPendingMigrations = [err |-> "none", value |-> << >>]
        /\ (boot = "connecting" /\ boot' # boot /\ dbHandle' # "open") => boot' = "exited"
        /\ (boot = "migrating" /\ boot' # boot /\ fr["boot"].err # "none") => boot' = "exited"
        /\ (boot \in {"off", "connecting"}) => boot' # "listening"
        /\ boot = "exited" => boot' = "exited"
      ]_vars

\* The server listens after the boot sequence applied the initial schema.
C8_Witness ==
    /\ boot = "listening"
    /\ \E i \in 1..Len(rows) : rows[i].name = "initial_schema"
    /\ Len(fr["boot"].pend) >= 1

\* C9: status() returns pendingCount = length of pendingMigrations(),
\* currentVersion = currentVersion() and totalMigrations = number of
\* registered migrations; it raises only where currentVersion() raises.
C9_StatusAgrees ==
    \A p \in Procs :
        Done(p, "getStatus") =>
            /\ (fr[p].err = "none") <=> (getCurrentVersion.err = "none")
            /\ fr[p].err = "none" =>
                    /\ fr[p].status.pendingCount = Len(getPendingMigrations.value)
                    /\ fr[p].status.pendingCount =
                            Cardinality({ i \in 1..Len(migrations) :
                                            migrations[i].version > MaxVersionOf(rows) })
                    /\ fr[p].status.currentVersion = getCurrentVersion.value
                    /\ fr[p].status.currentVersion = MaxVersionOf(rows)
                    /\ fr[p].status.totalMigrations = Len(migrations)

\* status() answered with something applied and something pending.
C9_Witness ==
    \E p \in Procs :
        /\ Done(p, "getStatus")
        /\ fr[p].err = "none"
        /\ fr[p].status.currentVersion > 0
        /\ fr[p].status.pendingCount > 0

\* The committed rows of the bookkeeping table.
CommittedRows == IF txn.active THEN txn.rows ELSE rows

\* C10 as stated: the bookkeeping table holds at most one row per version.
C10_OneRowPerVersion ==
    \A i, j \in 1..Len(CommittedRows) :
        i # j => CommittedRows[i].version # CommittedRows[j].version

-----------------------------------------------------------------------------
\* The Database class on its own: a caller of connect, close, run, get, all
\* and the transaction methods.

\* connect() is called while fewer than MaxOpened connections are open.
MaxOpened == 2
\* run() inserts while the table holds fewer than MaxRows rows.
MaxRows == 2

runnerVars == <<migrations, initialized, boot, fr, last>>

\* The state the Database methods leave alone.
besideHandle == <<runnerVars, entityVars, repositoryVars, dbPath>>

\* new sqlite3.Database(...) opens a connection of its own; nothing closes
\* the one this.db held before.
OpenedAfterConnect(ok) == IF ok THEN opened + 1 ELSE opened

DbConnect ==
    \E ok \in BOOLEAN :
        /\ opened < MaxOpened
        /\ connect(ok)
        /\ opened' = OpenedAfterConnect(ok)
        /\ call' = HandleCall("connect", IF ok THEN "none" ELSE "cantopen")
        /\ UNCHANGED besideHandle

DbClose ==
    \E fail \in BOOLEAN :
        LET c == close(fail)
        IN  /\ dbHandle' = c.handle
            /\ opened' = IF c.closed THEN opened - 1 ELSE opened
            /\ IF c.closed /\ txn.active
               THEN schema' = txn.schema /\ rows' = txn.rows /\ txn' = NoTxn
               ELSE UNCHANGED <<schema, rows, txn>>
            /\ call' = HandleCall("close", c.err)
            /\ UNCHANGED besideHandle

\* The statements the caller hands to run().
HandleStatements ==
    {CreateMigrationsStmt, InsertStmt(initialSchemaMigration),
     DeleteStmt(initialSchemaMigration)}

DbRun ==
    \E stmt \in HandleStatements, fail \in BOOLEAN :
        /\ stmt.k = "insert" => Len(rows) < MaxRows
        /\ LET o == Run(stmt, fail)
           IN  SetDb(o) /\ call' = HandleCall("run", o.err)
        /\ UNCHANGED <<dbHandle, opened, besideHandle>>

DbGet ==
    /\ call' = HandleCall("get", SelectMaxVersion.err)
    /\ UNCHANGED <<dbHandle, schema, rows, txn, opened, besideHandle>>

DbAll ==
    /\ call' = HandleCall("all", SelectAll.err)
    /\ UNCHANGED <<dbHandle, schema, rows, txn, opened, besideHandle>>

DbBeginTransaction ==
    \E fail \in BOOLEAN :
        /\ LET o == beginTransaction(fail)
           IN  SetDb(o) /\ call' = HandleCall("beginTransaction", o.err)
        /\ UNCHANGED <<dbHandle, opened, besideHandle>>

DbCommitTransaction ==
    \E fail \in BOOLEAN :
        /\ LET o == commitTransaction(fail)
           IN  SetDb(o) /\ call' = HandleCall("commitTransaction", o.err)
        /\ UNCHANGED <<dbHandle, opened, besideHandle>>

DbRollbackTransaction ==
    /\ LET o == rollbackTransaction
       IN  SetDb(o) /\ call' = HandleCall("rollbackTransaction", o.err)
    /\ UNCHANGED <<dbHandle, opened, besideHandle>>

HandleNext ==
    \/ DbConnect
    \/ DbClose
    \/ DbRun
    \/ DbGet
    \/ DbAll
    \/ DbBeginTransaction
    \/ DbCommitTransaction
    \/ DbRollbackTransaction

HandleSpec == Init /\ [][HandleNext]_vars

HandleOperations ==
    {"run", "get", "all", "beginTransaction", "commitTransaction",
     "rollbackTransaction"}

\* The call found the database as it is now.
CallChangedNothing ==
    schema = call.schema /\ rows = call.rows /\ txn = call.txn

\* C11 as stated: an operation on a handle that is not connected (never
\* connected, closed, or left by a connect() that failed) fails with
\* 'not connected' without reaching the driver and changes nothing, and
\* close() on such a handle resolves without reaching the driver.
C11_NotConnectedHandleRejects ==
    call.on \in {"null", "broken"} =>
        /\ call.op \in HandleOperations =>
                call.err = "not_connected" /\ ~call.driver /\ CallChangedNothing
        /\ call.op = "close" =>
                call.err = "none" /\ ~call.driver /\ CallChangedNothing

\* C12 as stated: a connect() that resolves on a connected handle leaves it
\* connected with exactly one connection open.
C12_ConnectIsIdempotent ==
    (call.op = "connect" /\ call.err = "none" /\ call.on = "open" /\ call.opened = 1) =>
        dbHandle = "open" /\ opened = 1

-----------------------------------------------------------------------------
\* BaseModel: the checks shared by the entities. A string is a sequence of
\* characters; a check yields the message it throws, "none" when it passes.

Repeat(c, n) == [i \in 1..n |-> c]

\* The characters \s matches.
Whitespace == {" ", "\t", "\n"}

\* A field that may be absent: undefined, null (a NULL column), or a value.
Undefined == [tag |-> "undefined", v |-> << >>]
Null == [tag |-> "null", v |-> << >>]
Val(x) == [tag |-> "value", v |-> x]
\* undefined where an enum value may stand
UndefinedEnum == [tag |-> "undefined", v |-> ""]

\* What a string method or a regular expression sees of such a field.
Text(value) ==
    IF value.tag = "value" THEN value.v
    ELSE IF value.tag = "null" THEN <<"n", "u", "l", "l">>
    ELSE <<"u", "n", "d", "e", "f", "i", "n", "e", "d">>

\* !value
Falsy(value) == value.tag # "value" \/ value.v = << >>

\* String.prototype.trim()
RECURSIVE TrimStart(_)
TrimStart(s) ==
    IF s # << >> /\ Head(s) \in Whitespace THEN TrimStart(Tail(s)) ELSE s

RECURSIVE TrimEnd(_)
TrimEnd(s) ==
    IF s # << >> /\ s[Len(s)] \in Whitespace
    THEN TrimEnd(SubSeq(s, 1, Len(s) - 1)) ELSE s

Trim(s) == TrimEnd(TrimStart(s))

\* /^[^\s@]+@[^\s@]+\.[^\s@]+$/.test(email)
validateEmail(email) ==
    \E k \in 1..Len(email) :
        /\ email[k] = "@"
        /\ \A i \in 1..Len(email) : i # k => email[i] \notin Whitespace \cup {"@"}
        /\ k > 1
        /\ \E j \in (k + 2)..(Len(email) - 1) : email[j] = "."

\* if (!value || typeof value !== 'string' || value.trim().length === 0) throw
validateRequiredString(value, fieldName) ==
    IF value = << >> \/ Trim(value) = << >>
    THEN fieldName \o " is required and must be a non-empty string"
    ELSE "none"

\* if (value.length < minLength || value.length > maxLength) throw
validateStringLength(value, fieldName, minLength, maxLength) ==
    IF Len(value) < minLength \/ Len(value) > maxLength
    THEN fieldName \o " must be between bounds"
    ELSE "none"

\* if (!Object.values(enumObj).includes(value)) throw
validateEnum(value, enumObj, fieldName) ==
    IF value \notin enumObj THEN fieldName \o " must be one of the enum" ELSE "none"

HexDigits ==
    {"0", "1", "2", "3", "4", "5", "6", "7", "8", "9",
     "a", "b", "c", "d", "e", "f", "A", "B", "C", "D", "E", "F"}

\* /^[0-9a-f]{8}-[0-9a-f]{4}-[1-5][0-9a-f]{3}-[89ab][0-9a-f]{3}-[0-9a-f]{12}$/i
MatchesUUID(value) ==
    /\ Len(value) = 36
    /\ \A i \in 1..36 :
          IF i \in {9, 14, 19, 24} THEN value[i] = "-"
          ELSE IF i = 15 THEN value[i] \in {"1", "2", "3", "4", "5"}
          ELSE IF i = 20 THEN value[i] \in {"8", "9", "a", "b", "A", "B"}
          ELSE value[i] \in HexDigits

validateUUID(value, fieldName) ==
    IF MatchesUUID(value) THEN "none" ELSE fieldName \o " must be a valid UUID"

\* A Date: milliseconds since the epoch, or an Invalid Date (NaN).
Date(ms) == [nan |-> FALSE, ms |-> ms]
InvalidDate == [nan |-> TRUE, ms |-> 0]
NoDate == [tag |-> "undefined", v |-> InvalidDate]

\* if (isNaN(new Date(value).getTime())) throw
validateDate(value, fieldName) ==
    IF value.nan THEN fieldName \o " must be a valid date" ELSE "none"

\* if (value !== undefined) validator(value): `thrown` is what the validator
\* throws for the value.
validateOptional(value, thrown) ==
    IF value.tag = "undefined" THEN "none" ELSE thrown

\* The statements of validate() run in order; the first throw leaves it.
FirstThrown(checks) ==
    LET bad == { i \in 1..Len(checks) : checks[i] # "none" }
    IN  IF bad = {} THEN "none"
        ELSE checks[CHOOSE i \in bad : \A j \in bad : i <= j]

-----------------------------------------------------------------------------
\* The entities: User and RegistrationRequest

UserRole == {"PRODUCT_PEOPLE", "CLIENT_MANAGER"}
UserStatus == {"PENDING", "ACTIVE", "INACTIVE"}
RegistrationRequestStatus == {"PENDING", "APPROVED", "REJECTED"}

\* A method's outcome: the object as the method leaves it and what it threw.
Outcome(e, t) == [entity |-> e, thrown |-> t]

\* User.validate()
UserValidate(u) ==
    FirstThrown(<<
        validateUUID(u.id, "id"),
        validateRequiredString(u.email, "email"),
        IF validateEmail(u.email) THEN "none" ELSE "email must be a valid email address",
        validateStringLength(u.email, "email", 3, 255),
        validateRequiredString(u.firstName, "firstName"),
        validateStringLength(u.firstName, "firstName", 1, 100),
        validateRequiredString(u.lastName, "lastName"),
        validateStringLength(u.lastName, "lastName", 1, 100),
        validateEnum(u.role, UserRole, "role"),
        validateEnum(u.status, UserStatus, "status"),
        validateDate(u.createdAt, "createdAt"),
        validateDate(u.updatedAt, "updatedAt") >>)

\* Variant: a factory that returns the user without validate().
UserCreateUnchecked(data, id, now) ==
    Outcome([kind |-> "User", id |-> id, email |-> data.email,
             firstName |-> data.firstName, lastName |-> data.lastName,
             role |-> data.role, status |-> "PENDING",
             createdAt |-> Date(now), updatedAt |-> Date(now)], "none")

\* User.create(data): id is crypto.randomUUID(), now is new Date().
UserCreate(data, id, now) ==
    LET user == [kind |-> "User", id |-> id, email |-> data.email,
                 firstName |-> data.firstName, lastName |-> data.lastName,
                 role |-> data.role, status |-> "PENDING",
                 createdAt |-> Date(now), updatedAt |-> Date(now)]
    IN  Outcome(user, UserValidate(user))

\* if (data.f !== undefined) this.f = data.f
Assigned(given, current) == IF given.tag = "undefined" THEN current ELSE given.v

\* User.update(data): the fields are assigned, then validate() runs.
UserUpdate(u, data, now) ==
    LET user == [u EXCEPT !.email = Assigned(data.email, @),
                          !.firstName = Assigned(data.firstName, @),
                          !.lastName = Assigned(data.lastName, @),
                          !.role = Assigned(data.role, @),
                          !.status = Assigned(data.status, @),
                          !.updatedAt = Date(now)]
    IN  Outcome(user, UserValidate(user))

\* User.activate() / User.deactivate()
UserActivate(u, now) ==
    Outcome([u EXCEPT !.status = "ACTIVE", !.updatedAt = Date(now)], "none")

UserDeactivate(u, now) ==
    Outcome([u EXCEPT !.status = "INACTIVE", !.updatedAt = Date(now)], "none")

\* RegistrationRequest.validate()
RequestValidate(r) ==
    FirstThrown(<<
        validateUUID(r.id, "id"),
        validateRequiredString(r.email, "email"),
        IF validateEmail(r.email) THEN "none" ELSE "email must be a valid email address",
        validateStringLength(r.email, "email", 3, 255),
        validateRequiredString(r.firstName, "firstName"),
        validateStringLength(r.firstName, "firstName", 1, 100),
        validateRequiredString(r.lastName, "lastName"),
        validateStringLength(r.lastName, "lastName", 1, 100),
        validateEnum(r.requestedRole, UserRole, "requestedRole"),
        validateEnum(r.status, RegistrationRequestStatus, "status"),
        validateDate(r.createdAt, "createdAt"),
        validateDate(r.updatedAt, "updatedAt"),
        validateOptional(r.approvedBy, validateUUID(Text(r.approvedBy), "approvedBy")),
        validateOptional(r.approvedAt, validateDate(r.approvedAt.v, "approvedAt")),
        validateOptional(r.rejectionReason,
            IF r.rejectionReason.tag = "null"
            THEN validateRequiredString(<< >>, "rejectionReason")
            ELSE FirstThrown(<<
                    validateRequiredString(r.rejectionReason.v, "rejectionReason"),
                    validateStringLength(r.rejectionReason.v, "rejectionReason", 1, 500) >>)),
        IF r.status = "APPROVED" /\ Falsy(r.approvedBy)
            THEN "approvedBy is required when status is APPROVED" ELSE "none",
        IF r.status = "REJECTED" /\ Falsy(r.rejectionReason)
            THEN "rejectionReason is required when status is REJECTED" ELSE "none",
        IF r.status = "REJECTED" /\ Falsy(r.approvedBy)
            THEN "approvedBy is required when status is REJECTED" ELSE "none" >>)

\* RegistrationRequest.create(data)
RequestCreate(data, id, now) ==
    LET request == [kind |-> "RegistrationRequest", id |-> id, email |-> data.email,
                    firstName |-> data.firstName, lastName |-> data.lastName,
                    requestedRole |-> data.requestedRole, status |-> "PENDING",
                    createdAt |-> Date(now), updatedAt |-> Date(now),
                    approvedBy |-> Undefined, approvedAt |-> NoDate,
                    rejectionReason |-> Undefined]
    IN  Outcome(request, RequestValidate(request))

\* Variant: process() that drops the reason of a rejection.
RequestProcessWithoutReason(r, approvalData, approvedBy, now) ==
    LET request == [r EXCEPT !.approvedBy = Val(approvedBy),
                             !.approvedAt = [tag |-> "value", v |-> Date(now)],
                             !.updatedAt = Date(now),
                             !.status = IF approvalData.approved
                                        THEN "APPROVED" ELSE "REJECTED"]
    IN  Outcome(request, RequestValidate(request))

\* RegistrationRequest.process(approvalData, approvedBy): the fields are
\* assigned, then validate() runs.
RequestProcess(r, approvalData, approvedBy, now) ==
    LET request == [r EXCEPT !.approvedBy = Val(approvedBy),
                             !.approvedAt = [tag |-> "value", v |-> Date(now)],
                             !.updatedAt = Date(now),
                             !.status = IF approvalData.approved
                                        THEN "APPROVED" ELSE "REJECTED",
                             !.rejectionReason = IF approvalData.approved THEN @
                                                 ELSE approvalData.rejectionReason]
    IN  Outcome(request, RequestValidate(request))

-----------------------------------------------------------------------------
\* A caller of the entity classes: it creates an entity, calls its methods
\* and lets go of it before it creates the next; the object it holds is
\* `entity`.

\* crypto.randomUUID() is called while fewer than MaxIds ids were issued.
MaxIds == 2
\* new Date() returns 0..MaxClock.
MaxClock == 1

\* The id numbered n, a version 4 UUID.
Uuid(n) ==
    Repeat("0", 8) \o <<"-">> \o Repeat("0", 4) \o <<"-", "4">> \o Repeat("0", 3)
        \o <<"-", "8">> \o Repeat("0", 3) \o <<"-">> \o Repeat("0", 11)
        \o <<ToString(n)>>

\* crypto.randomUUID(): a random version 4 UUID, taken to differ from the
\* ids issued before (122 random bits).
IssuableIds == { Uuid(n) : n \in 1..MaxIds }
randomUUID == IssuableIds \ issued

AdminId == Uuid(0)

GoodEmail == <<"a", "@", "b", ".", "c">>
OtherEmail == <<"d", ".", "e", "@", "f", ".", "g">>
BadEmails == {<<"a", "@", "b">>, <<"a", " ", "@", "b", ".", "c">>}
BadNames == {<< >>, <<" ">>, Repeat("x", 101)}

\* CreateUserRequest values: the valid one, and one field changed at a time.
ValidCreateUserRequest ==
    [email |-> GoodEmail, firstName |-> <<"A", "l">>, lastName |-> <<"B">>,
     role |-> "CLIENT_MANAGER"]

CreateUserRequests ==
    {ValidCreateUserRequest}
        \cup { [ValidCreateUserRequest EXCEPT !.email = e, !.role = "PRODUCT_PEOPLE"] :
                    e \in {OtherEmail} \cup BadEmails }
        \cup { [ValidCreateUserRequest EXCEPT !.firstName = n] : n \in BadNames }
        \cup { [ValidCreateUserRequest EXCEPT !.role = "ADMIN"] }

\* CreateRegistrationRequestRequest values
ValidCreateRegistrationRequest ==
    [email |-> GoodEmail, firstName |-> <<"A", "l">>, lastName |-> <<"B">>,
     requestedRole |-> "CLIENT_MANAGER"]

CreateRegistrationRequests ==
    {ValidCreateRegistrationRequest}
        \cup { [ValidCreateRegistrationRequest EXCEPT !.email = e,
                                                      !.requestedRole = "PRODUCT_PEOPLE"] :
                    e \in {OtherEmail} \cup BadEmails }
        \cup { [ValidCreateRegistrationRequest EXCEPT !.lastName = n] : n \in BadNames }
        \cup { [ValidCreateRegistrationRequest EXCEPT !.requestedRole = "ADMIN"] }

\* UpdateUserRequest values: no field, or one field.
EmptyUpdate ==
    [email |-> Undefined, firstName |-> Undefined, lastName |-> Undefined,
     role |-> UndefinedEnum, status |-> UndefinedEnum]

UpdateUserRequests ==
    {EmptyUpdate}
        \cup { [EmptyUpdate EXCEPT !.email = Val(e)] : e \in {OtherEmail, <<"a", "@", "b">>} }
        \cup { [EmptyUpdate EXCEPT !.firstName = Val(<<"Z">>), !.status = Val("INACTIVE")] }

\* ApproveRegistrationRequestRequest values
ApprovalRequests ==
    { [approved |-> TRUE, rejectionReason |-> Undefined],
      [approved |-> FALSE, rejectionReason |-> Undefined],
      [approved |-> FALSE, rejectionReason |-> Val(<<"n", "o">>)],
      [approved |-> FALSE, rejectionReason |-> Val(<<"l", "a", "t", "e">>)] }

\* The ids passed as approvedBy: a user's id, or an empty string.
ApproverIds == {AdminId, << >>}

EntityCall(o, out, a) ==
    [op |-> o, thrown |-> out.thrown, before |-> entity, args |-> a, issued |-> issued]

besideEntity ==
    <<dbHandle, schema, rows, txn, runnerVars, handleVars, repositoryVars, dbPath>>

Tick ==
    /\ clock < MaxClock
    /\ clock' = clock + 1
    /\ UNCHANGED <<entity, issued, ecall, besideEntity>>

\* The caller keeps the object a factory returned; a factory that throws
\* returns none.
NewUser ==
    /\ entity = NoEntity
    /\ \E data \in CreateUserRequests, id \in randomUUID :
        \E out \in {UserCreate(data, id, clock)} :
            /\ entity' = IF out.thrown = "none" THEN out.entity ELSE entity
            /\ issued' = issued \cup {id}
            /\ ecall' = EntityCall("User.create", out, data)
    /\ UNCHANGED <<clock, besideEntity>>

NewRequest ==
    /\ entity = NoEntity
    /\ \E data \in CreateRegistrationRequests, id \in randomUUID :
        \E out \in {RequestCreate(data, id, clock)} :
            /\ entity' = IF out.thrown = "none" THEN out.entity ELSE entity
            /\ issued' = issued \cup {id}
            /\ ecall' = EntityCall("RegistrationRequest.create", out, data)
    /\ UNCHANGED <<clock, besideEntity>>

\* The caller drops the object.
Forget ==
    /\ entity # NoEntity
    /\ entity' = NoEntity
    /\ ecall' = NoEntityCall
    /\ UNCHANGED <<issued, clock, besideEntity>>

\* A method of the object: the object is left as the method left it,
\* whether it returned or threw.
Update ==
    /\ entity.kind = "User"
    /\ \E data \in UpdateUserRequests :
        \E out \in {UserUpdate(entity, data, clock)} :
            entity' = out.entity /\ ecall' = EntityCall("User.update", out, data)
    /\ UNCHANGED <<issued, clock, besideEntity>>

Activate ==
    /\ entity.kind = "User"
    /\ LET out == UserActivate(entity, clock)
       IN  entity' = out.entity /\ ecall' = EntityCall("User.activate", out, << >>)
    /\ UNCHANGED <<issued, clock, besideEntity>>

Deactivate ==
    /\ entity.kind = "User"
    /\ LET out == UserDeactivate(entity, clock)
       IN  entity' = out.entity /\ ecall' = EntityCall("User.deactivate", out, << >>)
    /\ UNCHANGED <<issued, clock, besideEntity>>

Process ==
    /\ entity.kind = "RegistrationRequest"
    /\ \E approvalData \in ApprovalRequests, approvedBy \in ApproverIds :
        \E out \in {RequestProcess(entity, approvalData, approvedBy, clock)} :
            /\ entity' = out.entity
            /\ ecall' = EntityCall("RegistrationRequest.process", out,
                                   [approvalData |-> approvalData,
                                    approvedBy |-> approvedBy])
    /\ UNCHANGED <<issued, clock, besideEntity>>

EntityNext ==
    \/ Tick
    \/ NewUser
    \/ NewRequest
    \/ Forget
    \/ Update
    \/ Activate
    \/ Deactivate
    \/ Process

EntitySpec == Init /\ [][EntityNext]_vars

-----------------------------------------------------------------------------
\* Properties of the entities

Processed == ecall.op = "RegistrationRequest.process"

\* The fields process() is not meant to touch.
IdentityOf(r) ==
    <<r.id, r.email, r.firstName, r.lastName, r.requestedRole, r.createdAt>>

\* C13 as stated: process() on a request that is already APPROVED or
\* REJECTED changes none of status, approvedBy, approvedAt, rejectionReason.
C13_ProcessedRequestIsImmutable ==
    (Processed /\ ecall.before.status \in {"APPROVED", "REJECTED"}) =>
        /\ entity.status = ecall.before.status
        /\ entity.approvedBy = ecall.before.approvedBy
        /\ entity.approvedAt = ecall.before.approvedAt
        /\ entity.rejectionReason = ecall.before.rejectionReason

\* C14 as stated: whatever process() calls were made on a created request,
\* returning or throwing, an APPROVED or REJECTED request has an approver
\* and a REJECTED request has a non-empty rejection reason.
C14_ApproverAndReasonPresent ==
    entity.kind = "RegistrationRequest" =>
        /\ entity.status \in {"APPROVED", "REJECTED"} => ~Falsy(entity.approvedBy)
        /\ entity.status = "REJECTED" => ~Falsy(entity.rejectionReason)

\* C15: process() on a PENDING request sets status APPROVED for an approval,
\* and REJECTED with the given reason for a rejection with a non-empty
\* reason; approvedBy is the approver passed, approvedAt is set, and id,
\* email, names, requestedRole and createdAt stay as they were.
C15_ProcessSetsOutcome ==
    (Processed /\ ecall.before.status = "PENDING") =>
        LET a == ecall.args.approvalData
            decided ==
                /\ entity.approvedBy = Val(ecall.args.approvedBy)
                /\ entity.approvedAt.tag = "value"
                /\ ~entity.approvedAt.v.nan
                /\ IdentityOf(entity) = IdentityOf(ecall.before)
        IN  /\ a.approved => entity.status = "APPROVED" /\ decided
            /\ (~a.approved /\ ~Falsy(a.rejectionReason)) =>
                    /\ entity.status = "REJECTED"
                    /\ entity.rejectionReason = a.rejectionReason
                    /\ decided

C15_Witness ==
    /\ Processed /\ ecall.before.status = "PENDING" /\ ecall.thrown = "none"
    /\ ~ecall.args.approvalData.approved
    /\ entity.status = "REJECTED"
    /\ entity.rejectionReason = Val(<<"l", "a", "t", "e">>)

\* The field rules of a creation input.
ValidCreateInput(email, firstName, lastName, role) ==
    /\ validateEmail(email) /\ Len(email) >= 3 /\ Len(email) <= 255
    /\ Trim(firstName) # << >> /\ Len(firstName) <= 100
    /\ Trim(lastName) # << >> /\ Len(lastName) <= 100
    /\ role \in UserRole

\* What every entity a factory returned shows.
FreshlyCreated(a) ==
    /\ ecall.thrown = "none"
    /\ entity.email = a.email
    /\ entity.firstName = a.firstName
    /\ entity.lastName = a.lastName
    /\ entity.status = "PENDING"
    /\ entity.createdAt = entity.updatedAt
    /\ entity.id \notin ecall.issued

NothingReturned == ecall.thrown # "none" /\ entity = ecall.before

\* C16: for a valid input the factories return an entity with the input's
\* fields, status PENDING, createdAt = updatedAt, an id that was not issued
\* before, and validate() passes on it; for an invalid input they throw and
\* return nothing.
C16_FactoryReturnsValidFreshEntity ==
    /\ ecall.op = "User.create" =>
          LET a == ecall.args
          IN  IF ValidCreateInput(a.email, a.firstName, a.lastName, a.role)
              THEN /\ FreshlyCreated(a)
                   /\ entity.kind = "User"
                   /\ entity.role = a.role
                   /\ UserValidate(entity) = "none"
              ELSE NothingReturned
    /\ ecall.op = "RegistrationRequest.create" =>
          LET a == ecall.args
          IN  IF ValidCreateInput(a.email, a.firstName, a.lastName, a.requestedRole)
              THEN /\ FreshlyCreated(a)
                   /\ entity.kind = "RegistrationRequest"
                   /\ entity.requestedRole = a.requestedRole
                   /\ RequestValidate(entity) = "none"
              ELSE NothingReturned

C16_Witness ==
    /\ ecall.op = "RegistrationRequest.create"
    /\ ecall.thrown = "none"
    /\ ecall.issued # {}
    /\ entity.email = OtherEmail

Mutators == {"User.update", "User.activate", "User.deactivate",
             "RegistrationRequest.process"}

\* C17 as stated: when update, activate, deactivate or process returns
\* normally, validate() passes on the entity.
C17_ValidAfterEveryMutator ==
    (ecall.op \in Mutators /\ ecall.thrown = "none") =>
        IF entity.kind = "User" THEN UserValidate(entity) = "none"
        ELSE RequestValidate(entity) = "none"

-----------------------------------------------------------------------------
\* User rows: User.toDatabase / User.fromDatabase and the users table

Digits == <<"0", "1", "2", "3", "4", "5", "6", "7", "8", "9">>
DigitValue(c) == CHOOSE d \in 0..9 : Digits[d + 1] = c
IsDigit(c) == \E d \in 0..9 : Digits[d + 1] = c

\* Date.prototype.toISOString(): the instant written out to the millisecond
\* in a fixed number of digits, then "Z" (here four digits of milliseconds).
\* It throws a RangeError on an Invalid Date: callers check d.nan first.
toISOString(d) ==
    << Digits[((d.ms \div 1000) % 10) + 1], Digits[((d.ms \div 100) % 10) + 1],
       Digits[((d.ms \div 10) % 10) + 1], Digits[(d.ms % 10) + 1], "Z" >>

\* Variant: a reader that keeps the seconds and drops the milliseconds.
ParseDateToSeconds(text) ==
    IF Len(text) = 5 /\ text[5] = "Z" /\ \A i \in 1..4 : IsDigit(text[i])
    THEN Date(1000 * DigitValue(text[1]))
    ELSE InvalidDate

\* new Date(text): the instant the text writes out, or an Invalid Date.
ParseDate(text) ==
    IF Len(text) = 5 /\ text[5] = "Z" /\ \A i \in 1..4 : IsDigit(text[i])
    THEN Date(1000 * DigitValue(text[1]) + 100 * DigitValue(text[2])
                + 10 * DigitValue(text[3]) + DigitValue(text[4]))
    ELSE InvalidDate

\* User.toDatabase()
UserToDatabase(u) ==
    [id |-> u.id, email |-> u.email, first_name |-> u.firstName,
     last_name |-> u.lastName, role |-> u.role, status |-> u.status,
     created_at |-> toISOString(u.createdAt),
     updated_at |-> toISOString(u.updatedAt)]

\* User.fromDatabase(data)
UserFromDatabase(data) ==
    [kind |-> "User", id |-> data.id, email |-> data.email,
     firstName |-> data.first_name, lastName |-> data.last_name,
     role |-> data.role, status |-> data.status,
     createdAt |-> ParseDate(data.created_at),
     updatedAt |-> ParseDate(data.updated_at)]

\* TEXT values compare character by character (BINARY collation).
RECURSIVE TextLess(_, _)
TextLess(a, b) ==
    IF b = << >> THEN FALSE
    ELSE IF a = << >> THEN TRUE
    ELSE IF Head(a) = Head(b) THEN TextLess(Tail(a), Tail(b))
    ELSE IF IsDigit(Head(a)) /\ IsDigit(Head(b))
         THEN DigitValue(Head(a)) < DigitValue(Head(b))
    ELSE IsDigit(Head(a))

\* The constraints of the users table on the rows `table`: PRIMARY KEY (id),
\* UNIQUE (email), CHECK (role IN ...), CHECK (status IN ...).
UsersConstraint(table) ==
    IF \E i, j \in 1..Len(table) : i # j /\ table[i].id = table[j].id
        THEN "SQLITE_CONSTRAINT: UNIQUE constraint failed: users.id"
    ELSE IF \E i, j \in 1..Len(table) : i # j /\ table[i].email = table[j].email
        THEN "SQLITE_CONSTRAINT: UNIQUE constraint failed: users.email"
    ELSE IF \E i \in 1..Len(table) : table[i].role \notin {"PRODUCT_PEOPLE", "CLIENT_MANAGER"}
        THEN "SQLITE_CONSTRAINT: CHECK constraint failed: role"
    ELSE IF \E i \in 1..Len(table) : table[i].status \notin {"PENDING", "ACTIVE", "INACTIVE"}
        THEN "SQLITE_CONSTRAINT: CHECK constraint failed: status"
    ELSE "none"

\* db.run: [err, table, changes]
SqlResult(e, t, n) == [err |-> e, table |-> t, changes |-> n]

\* INSERT INTO users (columns) VALUES (?, ...)
InsertUser(table, row) ==
    LET t == Append(table, row)
    IN  IF UsersConstraint(t) # "none" THEN SqlResult(UsersConstraint(t), table, 0)
        ELSE SqlResult("none", t, 1)

\* The columns a SET clause names: those of `data` that are present.
SetColumns(data) == { c \in DOMAIN data : data[c].tag # "undefined" }

\* Variant: an UPDATE without its WHERE clause.
UpdateUserEveryRow(table, data, id) ==
    LET t == [i \in 1..Len(table) |->
                [c \in DOMAIN table[i] |->
                    IF c \in SetColumns(data) THEN data[c].v ELSE table[i][c]]]
    IN  IF SetColumns(data) = {} THEN SqlResult("SQLITE_ERROR: near WHERE: syntax error", table, 0)
        ELSE IF UsersConstraint(t) # "none" THEN SqlResult(UsersConstraint(t), table, 0)
        ELSE SqlResult("none", t, Len(table))

\* UPDATE users SET c = ?, ... WHERE id = ?   A statement without a column
\* after SET does not parse.
UpdateUser(table, data, id) ==
    LET t == [i \in 1..Len(table) |->
                IF table[i].id # id THEN table[i]
                ELSE [c \in DOMAIN table[i] |->
                        IF c \in SetColumns(data) THEN data[c].v ELSE table[i][c]]]
        n == Cardinality({ i \in 1..Len(table) : table[i].id = id })
    IN  IF SetColumns(data) = {} THEN SqlResult("SQLITE_ERROR: near WHERE: syntax error", table, 0)
        ELSE IF n > 0 /\ UsersConstraint(t) # "none" THEN SqlResult(UsersConstraint(t), table, 0)
        ELSE SqlResult("none", t, n)

-----------------------------------------------------------------------------
\* BaseRepository / UserRepository: a method's outcome is the table it
\* leaves, what its promise resolved to and what it rejected with.

DefaultPage == 1
DefaultLimit == 10

Settled(t, v, e) == [table |-> t, returned |-> v, raised |-> e]

Absent == [tag |-> "null"]
Found(e) == [tag |-> "entity", v |-> e]

\* A Partial<User> without fields.
EmptyPartial ==
    [email |-> Undefined, firstName |-> Undefined, lastName |-> Undefined,
     role |-> UndefinedEnum, status |-> UndefinedEnum, updatedAt |-> NoDate]

\* UserRepository.mapToDatabase(entity) for a partial entity: one column per
\* field the object has.
PartialToDatabase(partial) ==
    [email |-> partial.email, first_name |-> partial.firstName,
     last_name |-> partial.lastName, role |-> partial.role,
     status |-> partial.status,
     updated_at |-> IF partial.updatedAt.tag = "undefined" THEN Undefined
                    ELSE Val(toISOString(partial.updatedAt.v))]

\* this.db.get('SELECT * FROM users WHERE id = ?'): the first row or none
SelectById(table, id) ==
    LET hit == { i \in 1..Len(table) : table[i].id = id }
    IN  IF hit = {} THEN Absent
        ELSE Found(UserFromDatabase(table[CHOOSE i \in hit : \A j \in hit : i <= j]))

SelectByEmail(table, email) ==
    LET hit == { i \in 1..Len(table) : table[i].email = email }
    IN  IF hit = {} THEN Absent
        ELSE Found(UserFromDatabase(table[CHOOSE i \in hit : \A j \in hit : i <= j]))

\* BaseRepository.findById / UserRepository.findByEmail
findById(table, id) == Settled(table, SelectById(table, id), "none")
findByEmail(table, email) == Settled(table, SelectByEmail(table, email), "none")

\* BaseRepository.create(entity): INSERT of entity.toDatabase(), then the
\* entity itself is returned.
create(table, u) ==
    LET r == InsertUser(table, UserToDatabase(u))
    IN  IF r.err # "none" THEN Settled(table, Absent, r.err)
        ELSE Settled(r.table, Found(u), "none")

\* BaseRepository.update(id, entity)
update(table, id, partial) ==
    LET r == UpdateUser(table, PartialToDatabase(partial), id)
    IN  IF r.err # "none" THEN Settled(table, Absent, r.err)
        ELSE IF r.changes = 0 THEN Settled(r.table, Absent, "none")
        ELSE Settled(r.table, SelectById(r.table, id), "none")

\* DELETE FROM users WHERE id = ?
DeleteUser(table, id) ==
    LET Kept(row) == row.id # id
    IN  SqlResult("none", SelectSeq(table, Kept),
                  Cardinality({ i \in 1..Len(table) : table[i].id = id }))

Boolean(b) == [tag |-> "boolean", b |-> b]
Total(n) == [tag |-> "number", n |-> n]

\* Variant: a delete that reports success whenever the statement ran.
deleteAlwaysTrue(table, id) ==
    LET r == DeleteUser(table, id)
    IN  Settled(r.table, Boolean(r.changes >= 0), "none")

\* BaseRepository.delete(id): result.changes > 0
delete(table, id) ==
    LET r == DeleteUser(table, id)
    IN  Settled(r.table, Boolean(r.changes > 0), "none")

\* BaseRepository.count(): SELECT COUNT(*) as total
count(table) == Settled(table, Total(Len(table)), "none")

\* BaseRepository.exists(id): SELECT COUNT(*) as count ... WHERE id = ?, count > 0
exists(table, id) ==
    Settled(table, Boolean(Cardinality({ i \in 1..Len(table) : table[i].id = id }) > 0),
            "none")

\* ORDER BY created_at DESC: rows with the same created_at come out in an
\* order SQL leaves open, rowid ascending or descending here.
OrderByCreatedAtDesc(table, tie) ==
    LET Before(i, j) ==
            \/ TextLess(table[j].created_at, table[i].created_at)
            \/ /\ table[i].created_at = table[j].created_at
               /\ IF tie = "rowid" THEN i < j ELSE j < i
        Place(i) == Cardinality({ j \in 1..Len(table) : Before(j, i) }) + 1
    IN  [k \in 1..Len(table) |-> table[CHOOSE i \in 1..Len(table) : Place(i) = k]]

\* Variant: an offset of page * limit.
PageOffsetFromPage(page, limit) == page * limit

\* const offset = (page - 1) * limit
PageOffset(page, limit) == (page - 1) * limit

\* LIMIT ? OFFSET ?
LimitOffset(ordered, limit, offset) ==
    SubSeq(ordered, offset + 1,
           IF offset + limit < Len(ordered) THEN offset + limit ELSE Len(ordered))

\* Math.ceil(total / limit) for limit > 0
Ceil(total, limit) == (total + limit - 1) \div limit

\* BaseRepository.findAll(options)
findAll(table, options, tie) ==
    LET page == IF options.page.tag = "undefined" THEN DefaultPage ELSE options.page.v
        limit == IF options.limit.tag = "undefined" THEN DefaultLimit ELSE options.limit.v
        picked == LimitOffset(OrderByCreatedAtDesc(table, tie), limit,
                              PageOffset(page, limit))
    IN  Settled(table,
                [data |-> [i \in 1..Len(picked) |-> UserFromDatabase(picked[i])],
                 pagination |-> [page |-> page, limit |-> limit, total |-> Len(table),
                                 pages |-> Ceil(Len(table), limit)]],
                "none")

-----------------------------------------------------------------------------
\* A caller of UserRepository on a connected handle whose database has the
\* users table; the table is empty or holds the rows an earlier run left.
\* The caller awaits each call before it makes the next.

\* create() is called while the table holds fewer than MaxUsers rows.
MaxUsers == 2
\* findAll is asked for pages 1..MaxPage of 1..MaxLimit rows.
MaxPage == 2
MaxLimit == 2

SeedChars == <<"1", "2", "3", "4", "5", "6", "7", "8", "9", "a", "b", "c", "d", "e", "f">>

\* Row k of a table that holds one row more than a default page.
SeedRow(k) ==
    [id |-> Repeat("0", 8) \o <<"-">> \o Repeat("0", 4) \o <<"-", "4">>
                \o Repeat("0", 3) \o <<"-", "8">> \o Repeat("0", 3) \o <<"-">>
                \o Repeat("0", 10) \o <<SeedChars[k], "0">>,
     email |-> <<"s", SeedChars[k], "@", "b", ".", "c">>,
     first_name |-> <<"S">>, last_name |-> <<SeedChars[k]>>,
     role |-> "CLIENT_MANAGER", status |-> "ACTIVE",
     created_at |-> toISOString(Date(10 * k)),
     updated_at |-> toISOString(Date(10 * k))]

SeedTable == [k \in 1..(DefaultLimit + 1) |-> SeedRow(k)]

RepositoryInit ==
    /\ dbHandle = "open"
    /\ schema = {MigrationsTable, "users"}
    /\ rows = << [version |-> 1, name |-> "initial_schema"] >>
    /\ txn = NoTxn
    /\ migrations = << initialSchemaMigration >>
    /\ initialized = TRUE
    /\ boot = "off"
    /\ fr = [p \in Procs |-> IdleFrame]
    /\ last = NoCall
    /\ opened = 1
    /\ call = NoHandleCall
    /\ entity = NoEntity
    /\ issued = {}
    /\ clock = 0
    /\ ecall = NoEntityCall
    /\ users \in {<< >>, SeedTable}
    /\ rcall = NoRepositoryCall
    /\ dbPath = "file"

\* The calls reach the users table.
UsersReady == HandleError = "none" /\ "users" \in schema

besideRepository ==
    <<dbHandle, schema, rows, txn, runnerVars, handleVars, entity, ecall, dbPath>>

RepositoryCall(o, out, a) ==
    [op |-> o, raised |-> out.raised, returned |-> out.returned, args |-> a,
     before |-> users]

\* The creation inputs User.create accepts.
AcceptedCreateUserRequests ==
    { d \in CreateUserRequests :
        validateEmail(d.email) /\ Trim(d.firstName) # << >>
            /\ Len(d.firstName) <= 100 /\ d.role \in UserRole }

\* The ids a caller asks for: ids User.create may issue, and one it never does.
LookupIds == IssuableIds \cup {AdminId}

\* Partial<User> values: no field, or some.
UserPartials(now) ==
    { EmptyPartial,
      [EmptyPartial EXCEPT !.email = Val(OtherEmail)],
      [EmptyPartial EXCEPT !.status = Val("ACTIVE"),
                           !.updatedAt = [tag |-> "value", v |-> Date(now)]] }

NoNumber == [tag |-> "undefined", v |-> 0]
Number(n) == [tag |-> "value", v |-> n]

\* PaginationOptions values; options left out is both fields left out.
PageOptions ==
    { [page |-> pg, limit |-> lm] :
        pg \in {NoNumber} \cup { Number(n) : n \in 1..MaxPage },
        lm \in {NoNumber} \cup { Number(n) : n \in 1..MaxLimit } }

TieOrders == {"rowid", "reverse"}

\* u = User.create(data); await repository.create(u)
RepoCreate ==
    /\ UsersReady /\ rcall = NoRepositoryCall
    /\ Len(users) < MaxUsers
    /\ \E data \in AcceptedCreateUserRequests, id \in randomUUID :
        \E u \in {UserCreate(data, id, clock).entity} :
            \E out \in {create(users, u)} :
                /\ users' = out.table
                /\ issued' = issued \cup {id}
                /\ rcall' = RepositoryCall("create", out, u)
    /\ UNCHANGED <<clock, besideRepository>>

RepoUpdate ==
    /\ UsersReady /\ rcall = NoRepositoryCall
    /\ \E id \in LookupIds, partial \in UserPartials(clock) :
        \E out \in {update(users, id, partial)} :
            /\ users' = out.table
            /\ rcall' = RepositoryCall("update", out, [id |-> id, partial |-> partial])
    /\ UNCHANGED <<issued, clock, besideRepository>>

RepoFindById ==
    /\ UsersReady /\ rcall = NoRepositoryCall
    /\ \E id \in LookupIds :
        \E out \in {findById(users, id)} :
            rcall' = RepositoryCall("findById", out, id)
    /\ UNCHANGED <<users, issued, clock, besideRepository>>

RepoFindByEmail ==
    /\ UsersReady /\ rcall = NoRepositoryCall
    /\ \E email \in {GoodEmail, OtherEmail} :
        \E out \in {findByEmail(users, email)} :
            rcall' = RepositoryCall("findByEmail", out, email)
    /\ UNCHANGED <<users, issued, clock, besideRepository>>

RepoFindAll ==
    /\ UsersReady /\ rcall = NoRepositoryCall
    /\ \E options \in PageOptions, tie \in TieOrders :
        \E out \in {findAll(users, options, tie)} :
            rcall' = RepositoryCall("findAll", out, options)
    /\ UNCHANGED <<users, issued, clock, besideRepository>>

\* The ids delete and exists are asked with: those of lookups and one of a
\* row stored before.
DeleteIds == LookupIds \cup {SeedRow(2).id}

RepoDelete ==
    /\ UsersReady /\ rcall = NoRepositoryCall
    /\ \E id \in DeleteIds :
        \E out \in {delete(users, id)} :
            /\ users' = out.table
            /\ rcall' = RepositoryCall("delete", out, id)
    /\ UNCHANGED <<issued, clock, besideRepository>>

RepoCount ==
    /\ UsersReady /\ rcall = NoRepositoryCall
    /\ \E out \in {count(users)} :
        rcall' = RepositoryCall("count", out, << >>)
    /\ UNCHANGED <<users, issued, clock, besideRepository>>

RepoExists ==
    /\ UsersReady /\ rcall = NoRepositoryCall
    /\ \E id \in DeleteIds :
        \E out \in {exists(users, id)} :
            rcall' = RepositoryCall("exists", out, id)
    /\ UNCHANGED <<users, issued, clock, besideRepository>>

\* The caller has read what the call settled with and goes on.
RepoReturn ==
    /\ rcall # NoRepositoryCall
    /\ rcall' = NoRepositoryCall
    /\ UNCHANGED <<users, issued, clock, besideRepository>>

RepositoryNext ==
    \/ Tick
    \/ RepoCreate
    \/ RepoUpdate
    \/ RepoFindById
    \/ RepoFindByEmail
    \/ RepoFindAll
    \/ RepoDelete
    \/ RepoCount
    \/ RepoExists
    \/ RepoReturn

RepositorySpec == RepositoryInit /\ [][RepositoryNext]_vars

-----------------------------------------------------------------------------
\* Properties of the repository

\* The database RepositoryInit starts from is one the migration runner
\* leaves: the table and a migrate() of the initial schema on a connected
\* handle.
DatabaseAfterInitialMigration ==
    /\ dbHandle = "open"
    /\ schema = {MigrationsTable, "users"}
    /\ rows = << [version |-> 1, name |-> "initial_schema"] >>
    /\ ~txn.active
    /\ migrations = << initialSchemaMigration >>
    /\ initialized

IdsOf(table) == { table[i].id : i \in 1..Len(table) }
EmailsOf(table) == { table[i].email : i \in 1..Len(table) }
RowWithId(table, id) == table[CHOOSE i \in 1..Len(table) : table[i].id = id]

\* C18 as stated: update(id, partial) for an id the table does not hold
\* resolves to null, whatever the partial entity, and leaves the table as
\* it was.
C18_UpdateOfAbsentIdIsNull ==
    (rcall.op = "update" /\ rcall.args.id \notin IdsOf(rcall.before)) =>
        /\ rcall.raised = "none"
        /\ rcall.returned = Absent
        /\ users = rcall.before

\* C21: delete(id) resolves to true exactly when the table held a row with
\* that id, and leaves the other rows, in their order; after it exists(id)
\* is false, findById(id) is null and count() is one lower when a row was
\* removed. findById, findByEmail, exists and delete asked for something the
\* table does not hold resolve to null or false and raise nothing.
C21_DeleteRemovesOneRow ==
    /\ rcall.op = "delete" =>
          LET id == rcall.args
              held == id \in IdsOf(rcall.before)
              Others(row) == row.id # id
          IN  /\ rcall.raised = "none"
              /\ rcall.returned = Boolean(held)
              /\ users = SelectSeq(rcall.before, Others)
              /\ Len(rcall.before) - Len(users) = (IF held THEN 1 ELSE 0)
              /\ exists(users, id).returned = Boolean(FALSE)
              /\ findById(users, id).returned = Absent
              /\ count(users).returned = Total(Len(rcall.before) - (IF held THEN 1 ELSE 0))
              /\ exists(users, id).raised = "none" /\ findById(users, id).raised = "none"
              /\ count(users).raised = "none"
    /\ (rcall.op \in {"findById", "exists"} /\ rcall.args \notin IdsOf(users)) =>
          /\ rcall.raised = "none"
          /\ rcall.returned = (IF rcall.op = "exists" THEN Boolean(FALSE) ELSE Absent)
    /\ (rcall.op = "findByEmail" /\ rcall.args \notin EmailsOf(users)) =>
          rcall.raised = "none" /\ rcall.returned = Absent
    /\ rcall.op = "count" =>
          rcall.raised = "none" /\ rcall.returned = Total(Len(users))

\* One of eleven rows is deleted, and a second delete of it finds nothing.
C21_Witness ==
    /\ rcall.op = "delete" /\ rcall.returned = Boolean(TRUE)
    /\ Len(rcall.before) = 11 /\ Len(users) = 10

C21_WitnessAbsent ==
    /\ rcall.op = "delete" /\ rcall.returned = Boolean(FALSE)
    /\ Len(rcall.before) = 10 /\ rcall.args = SeedRow(2).id

\* The field of a User that a column of the users table stores.
FieldOfColumn ==
    [id |-> "id", email |-> "email", first_name |-> "firstName",
     last_name |-> "lastName", role |-> "role", status |-> "status",
     created_at |-> "createdAt", updated_at |-> "updatedAt"]

Provided(partial, field) ==
    field \in DOMAIN partial /\ partial[field].tag # "undefined"

NewerThan(table, row) ==
    Cardinality({ i \in 1..Len(table) : TextLess(row.created_at, table[i].created_at) })
NotOlderThan(table, row) ==
    Cardinality({ i \in 1..Len(table) : ~TextLess(table[i].created_at, row.created_at) })

\* C19: findAll({page, limit}) on n rows resolves to the rows at positions
\* (page-1)*limit+1 .. min(page*limit, n) of a creation-time-descending
\* order of the table, as entities, and to pagination {page, limit,
\* total: n, pages: ceil(n/limit)}; a field left out is page 1, limit 10.
C19_FindAllReturnsThePage ==
    rcall.op = "findAll" =>
        LET o == rcall.args
            page == IF o.page.tag = "value" THEN o.page.v ELSE 1
            limit == IF o.limit.tag = "value" THEN o.limit.v ELSE 10
            n == Len(users)
            first == (page - 1) * limit + 1
            lastPos == IF page * limit < n THEN page * limit ELSE n
            data == rcall.returned.data
        IN  /\ rcall.raised = "none"
            /\ Len(data) = (IF lastPos >= first THEN lastPos - first + 1 ELSE 0)
            /\ Len(data) <= limit
            /\ \A i, j \in 1..Len(data) : i # j => data[i].id # data[j].id
            /\ \A i \in 1..Len(data) :
                  /\ data[i].id \in IdsOf(users)
                  /\ data[i] = UserFromDatabase(RowWithId(users, data[i].id))
                  /\ NewerThan(users, RowWithId(users, data[i].id)) < first + i - 1
                  /\ first + i - 1 <= NotOlderThan(users, RowWithId(users, data[i].id))
            /\ rcall.returned.pagination.page = page
            /\ rcall.returned.pagination.limit = limit
            /\ rcall.returned.pagination.total = n
            /\ rcall.returned.pagination.pages * limit >= n
            /\ (rcall.returned.pagination.pages - 1) * limit < n \/ n = 0
            /\ n = 0 => rcall.returned.pagination.pages = 0

\* The second page of a table of eleven rows, asked for without a limit.
C19_Witness ==
    /\ rcall.op = "findAll"
    /\ rcall.args.page = Number(2) /\ rcall.args.limit = NoNumber
    /\ Len(users) = 11
    /\ Len(rcall.returned.data) = 1
    /\ rcall.returned.pagination.pages = 2

\* C20: create(u) of a valid user on a table holding neither its id nor
\* its email resolves to u and appends the row u.toDatabase(); findById and
\* findByEmail then give a user whose toDatabase() is that row, and
\* fromDatabase(toDatabase(u)) is u.
C20_CreatedUserReadsBack ==
    /\ (rcall.op = "create" /\ rcall.args.id \notin IdsOf(rcall.before)
            /\ rcall.args.email \notin EmailsOf(rcall.before)) =>
          LET u == rcall.args
              row == UserToDatabase(u)
              byId == findById(users, u.id)
              byEmail == findByEmail(users, u.email)
          IN  /\ UserValidate(u) = "none"
              /\ rcall.raised = "none"
              /\ rcall.returned = Found(u)
              /\ users = Append(rcall.before, row)
              /\ byId.raised = "none" /\ byId.returned.tag = "entity"
              /\ UserToDatabase(byId.returned.v) = row
              /\ byEmail.raised = "none" /\ byEmail.returned.tag = "entity"
              /\ UserToDatabase(byEmail.returned.v) = row
              /\ UserFromDatabase(row) = u
    /\ (rcall.op \in {"findById", "findByEmail"} /\ rcall.returned.tag = "entity") =>
          /\ rcall.returned.v.id \in IdsOf(users)
          /\ UserToDatabase(rcall.returned.v) = RowWithId(users, rcall.returned.v.id)

\* A second user, created at a time with milliseconds, is stored.
C20_Witness ==
    /\ rcall.op = "create" /\ rcall.raised = "none"
    /\ Len(users) = 2
    /\ rcall.args.createdAt = Date(1)
    /\ findByEmail(users, rcall.args.email).returned = Found(rcall.args)

-----------------------------------------------------------------------------
\* Properties of the initial schema migration and of the runner's errors

InitialSchemaObjects == Range(InitialSchemaTables) \cup Range(InitialSchemaIndexes)

\* C22 as stated: a migrate() that applied migration version 1 without an
\* error leaves every table and index of the persisted schema in place, and
\* a rollback() that ran its reverse script without an error leaves none.
C22_InitialSchemaInFull ==
    \A p \in Procs :
        /\ (Done(p, "migrate") /\ fr[p].err = "none"
                /\ initialSchemaMigration \in Range(fr[p].pend)) =>
              InitialSchemaObjects \subseteq schema
        /\ (Done(p, "rollback") /\ fr[p].err = "none" /\ fr[p].hist # << >>
                /\ fr[p].mig = initialSchemaMigration) =>
              schema \cap InitialSchemaObjects = {}

\* The catch block of applyMigration ran: a statement of the try block failed.
CatchRan(p) ==
    /\ Done(p, "migrate")
    /\ \E i \in 1..Len(fr[p].hist) :
            fr[p].hist[i].e \in {"begin", "up", "insert", "commit"} /\ ~fr[p].hist[i].ok

\* C23 as stated: the error migrate() raises is the error of the statement
\* of the try block that failed, also when the ROLLBACK of the catch block
\* fails.
C23_TriggeringErrorSurfaces ==
    \A p \in Procs :
        CatchRan(p) => fr[p].err = fr[p].caught

\* rollback() went past its early returns: it sent BEGIN.
RollbackActed(p) == Done(p, "rollback") /\ fr[p].hist # << >>

\* The reverse script or the deletion of the bookkeeping row failed.
ReverseFailed(p) ==
    /\ RollbackActed(p)
    /\ \E i \in 1..Len(fr[p].hist) :
            fr[p].hist[i].e \in {"down", "delete"} /\ ~fr[p].hist[i].ok

WithoutVersion(rs, v) == SelectSeq(rs, LAMBDA r : r.version # v)

C24_WitnessFailed ==
    \E p \in Procs :
        /\ ReverseFailed(p)
        /\ \E i \in 1..Len(fr[p].hist) : fr[p].hist[i].e = "delete" /\ ~fr[p].hist[i].ok
        /\ Len(fr[p].pre.rows) = 2

-----------------------------------------------------------------------------
\* Two migrate() calls in flight together on one runner and one handle
\* (startServer's and a direct caller's, or two direct callers'): every
\* await of one call is a point where the other may go on.

\* The registries of one or two migrations.
OverlapRegistries ==
    { SortByVersion(<< a >>) : a \in Catalog }
        \cup { SortByVersion(<< a, b >>) : a, b \in Catalog }

\* A connected handle whose database holds the empty bookkeeping table.
OverlapInit ==
    /\ dbHandle = "open"
    /\ schema = {MigrationsTable}
    /\ rows = << >>
    /\ txn = NoTxn
    /\ migrations \in OverlapRegistries
    /\ initialized = TRUE
    /\ boot = "off"
    /\ fr = [p \in Procs |-> IdleFrame]
    /\ last = NoCall
    /\ opened = 1
    /\ call = NoHandleCall
    /\ entity = NoEntity
    /\ issued = {}
    /\ clock = 0
    /\ ecall = NoEntityCall
    /\ users = << >>
    /\ rcall = NoRepositoryCall
    /\ dbPath = "file"

\* migrate() is called while the other caller has made no call or has a
\* migrate() in flight.
OverlapMigrate(p) ==
    /\ fr[p].pc = "idle"
    /\ \A q \in Procs : fr[q].pc # "done"
    /\ fr' = [fr EXCEPT ![p] = NewFrame("migrate", "mig_pending")]
    /\ UNCHANGED <<dbHandle, schema, rows, txn, migrations, initialized, boot, last, apart>>

OverlapNext ==
    \E p \in Procs :
        \/ OverlapMigrate(p)
        \/ MigratePending(p)
        \/ ApplyBegin(p)
        \/ ApplyUp(p)
        \/ ApplyInsert(p)
        \/ ApplyCommit(p)
        \/ ApplyCatch(p)

OverlapSpec == OverlapInit /\ [][OverlapNext]_vars

\* Two calls were made, the second before the first settled, and the
\* driver failed no statement of either.
Overlapped == \A p \in Procs : fr[p].op = "migrate" /\ ~fr[p].injected

\* How often statement e of a migration named n ran without an error, in
\* the two calls together.
Ran(e, n) ==
    LET Hits(p) == { i \in 1..Len(fr[p].hist) :
                        fr[p].hist[i].e = e /\ fr[p].hist[i].name = n /\ fr[p].hist[i].ok }
    IN  Cardinality(Hits("boot")) + Cardinality(Hits("api"))

\* The last BEGIN a call sent before position i of its statements succeeded.
OwnTransaction(h, i) ==
    \E j \in 1..(i - 1) :
        /\ h[j].e = "begin" /\ h[j].ok
        /\ \A k \in (j + 1)..(i - 1) : h[k].e # "begin"

\* C26 as stated: when two migrate() calls overlap, the forward script of
\* each registered migration runs at most once, its version is recorded at
\* most once, and a ROLLBACK that takes effect was sent by the call whose
\* own BEGIN opened the transaction.
C26_OverlappingMigrateAppliesOnce ==
    Overlapped =>
        /\ \A i \in 1..Len(migrations) :
              /\ Ran("up", migrations[i].name) <= 1
              /\ Cardinality({ k \in 1..Len(rows) :
                                  rows[k].version = migrations[i].version }) <= 1
        /\ \A p \in Procs : \A i \in 1..Len(fr[p].hist) :
              (fr[p].hist[i].e = "rollback" /\ fr[p].hist[i].ok) =>
                  OwnTransaction(fr[p].hist, i)

-----------------------------------------------------------------------------
\* The tables of the repositories, and RegistrationRequest rows

\* super(db, 'users') / super(db, 'registration_requests')
RepositoryTables == {"users", "registration_requests"}

\* Every registered migration has its bookkeeping row.
AllRegisteredApplied ==
    /\ migrations # << >>
    /\ \A i \in 1..Len(migrations) : migrations[i].version \in Versions(rows)

\* C27 as stated: once a migrate() that the boot sequence or a caller made
\* on the registry of registerMigrations() has returned normally and every
\* registered migration is applied, the tables of both repositories exist.
C27_RepositoryTablesExist ==
    \A p \in Procs :
        (Done(p, "migrate") /\ fr[p].err = "none" /\ AllRegisteredApplied
            /\ ~txn.active /\ initialSchemaMigration \in Range(migrations)) =>
                RepositoryTables \subseteq schema

\* RegistrationRequest.toDatabase()
RequestToDatabase(r) ==
    [id |-> r.id, email |-> r.email, first_name |-> r.firstName,
     last_name |-> r.lastName, requested_role |-> r.requestedRole,
     status |-> r.status,
     created_at |-> toISOString(r.createdAt),
     updated_at |-> toISOString(r.updatedAt),
     approved_by |-> r.approvedBy,
     approved_at |-> IF r.approvedAt.tag = "undefined" THEN Undefined
                     ELSE Val(toISOString(r.approvedAt.v)),
     rejection_reason |-> r.rejectionReason]

\* The row an INSERT of these values stores and a SELECT gives back: a
\* parameter that is undefined is stored as NULL.
StoredRow(data) ==
    [c \in DOMAIN data |->
        IF c \in {"approved_by", "approved_at", "rejection_reason"}
                /\ data[c].tag = "undefined"
        THEN Null ELSE data[c]]

\* RegistrationRequest.fromDatabase(data)
RequestFromDatabase(data) ==
    [kind |-> "RegistrationRequest", id |-> data.id, email |-> data.email,
     firstName |-> data.first_name, lastName |-> data.last_name,
     requestedRole |-> data.requested_role, status |-> data.status,
     createdAt |-> ParseDate(data.created_at),
     updatedAt |-> ParseDate(data.updated_at),
     approvedBy |-> data.approved_by,
     approvedAt |-> IF data.approved_at.tag = "value"
                    THEN [tag |-> "value", v |-> ParseDate(data.approved_at.v)]
                    ELSE NoDate,
     rejectionReason |-> data.rejection_reason]

\* C28 as stated: a RegistrationRequest that passes validate(), stored as
\* the row toDatabase() gives and read back with fromDatabase(), passes
\* validate() again and has the field values it had.
C28_StoredRequestReadsBack ==
    (entity.kind = "RegistrationRequest" /\ RequestValidate(entity) = "none") =>
        LET back == RequestFromDatabase(StoredRow(RequestToDatabase(entity)))
        IN  /\ RequestValidate(back) = "none"
            /\ back = entity

\* C29 as stated: when User.update() or RegistrationRequest.process()
\* throws, every field of the object has the value it had before the call.
C29_RejectedMutationChangesNothing ==
    (ecall.op \in {"User.update", "RegistrationRequest.process"}
        /\ ecall.thrown # "none") =>
            entity = ecall.before

-----------------------------------------------------------------------------
\* The migration runner across close() and connect(): the callers of the
\* runner also close the handle and connect it again, between calls.

ReconnectInit ==
    /\ dbHandle = "null"
    /\ schema = {}
    /\ rows = << >>
    /\ txn = NoTxn
    /\ migrations = << >>
    /\ initialized = FALSE
    /\ boot = "off"
    /\ fr = [p \in Procs |-> IdleFrame]
    /\ last = NoCall
    /\ opened = 0
    /\ call = NoHandleCall
    /\ entity = NoEntity
    /\ issued = {}
    /\ clock = 0
    /\ ecall = NoEntityCall
    /\ users = << >>
    /\ rcall = NoRepositoryCall
    /\ dbPath \in {"file", ":memory:"}

ReconnectConnect == Quiet /\ DbConnect
ReconnectClose == Quiet /\ DbClose

ReconnectNext ==
    \/ ReconnectConnect
    \/ ReconnectClose
    \/ AddMigration
    \/ \E p \in Procs :
        \/ CallInitializeMigrationsTable(p)
        \/ InitRun(p)
        \/ Return(p)
        \/ CallMigrate(p)
        \/ MigratePending(p)
        \/ ApplyBegin(p)
        \/ ApplyUp(p)
        \/ ApplyInsert(p)
        \/ ApplyCommit(p)
        \/ ApplyCatch(p)
        \/ CallRollback(p)
        \/ RollbackLast(p)
        \/ RollbackBegin(p)
        \/ RollbackDown(p)
        \/ RollbackDelete(p)
        \/ RollbackCommit(p)
        \/ RollbackCatch(p)

ReconnectSpec == ReconnectInit /\ [][ReconnectNext]_vars

\* C30 as stated: whenever the runner's initialized flag is set and the
\* handle is connected, the database it is connected to has the
\* bookkeeping table.
C30_InitializedImpliesTable ==
    (initialized /\ dbHandle = "open") => MigrationsTable \in schema

====
